---- MODULE Spec2Model ----
(***************************************************************************)
(* Model of the purchase-request site's submission handler                 *)
(* (submit_all_requests) and of the sheet-log total                        *)
(* (GoogleSheetsClient._calculate_total_amount / log_purchase_request).    *)
(*                                                                         *)
(* Conventions                                                             *)
(*  - a Python str is a tuple of one-character strings, so that float(),   *)
(*    int(), str.split and the f-strings are computed, not tabulated;      *)
(*  - a form value is a record [kind, val]: kind "none" is Python's None,  *)
(*    "str" a plain form string, "file" an UploadFile whose filename is    *)
(*    val;                                                                 *)
(*  - money is an integer number of cents (the payloads carry at most two  *)
(*    fractional digits).                                                  *)
(***************************************************************************)
EXTENDS Integers, Sequences, FiniteSets, TLC

(***************************************************************************)
(* Bounds of the payloads and program constants                            *)
(***************************************************************************)
\* highest number of forms of one payload that carry any field
MaxFilled == 2
\* highest item number of a form for which the payload carries fields
MaxItemFields == 4
\* for form_num in range(1, 11)
MaxForms == 10
\* for item_num in range(1, 50)
ItemRangeEnd == 50
\* def _append_row_with_retries(self, range_name, body, max_attempts=5)
max_attempts == 5
\* max_retries = 3 of _upload_file
max_retries == 3
\* highest number of files in the session folder of a parallel upload
MaxFiles == 4
\* number of concurrent submissions
MaxSubmissions == 2
\* last second of the wall clock
MaxClock == 2

\* the largest height and width of the images tried
MaxSide == 2

\* how many times in a row trim_whitespace is applied
MaxTrims == 2

\* the most items of a record handed to a workbook generator
MaxReportItems == 2

\* the largest height of the images handed to convert_signature_to_png
MaxImageHeight == 100

\* max_width of convert_signature_to_png
max_width == 400

\* bits of the significand of a Python float
Precision == 53

(***************************************************************************)
(* Strings                                                                 *)
(***************************************************************************)
Digits == <<"0", "1", "2", "3", "4", "5", "6", "7", "8", "9">>

IsDigit(c) == \E i \in 1..10 : Digits[i] = c

DigitVal(c) == (CHOOSE i \in 1..10 : Digits[i] = c) - 1

AllDigits(s) == \A i \in 1..Len(s) : IsDigit(s[i])

RECURSIVE DigitsVal(_)
DigitsVal(s) ==
    IF s = <<>> THEN 0
    ELSE 10 * DigitsVal(SubSeq(s, 1, Len(s) - 1)) + DigitVal(s[Len(s)])

\* str(n) for n >= 0
RECURSIVE IntToStr(_)
IntToStr(n) ==
    IF n < 10 THEN <<Digits[n + 1]>>
    ELSE IntToStr(n \div 10) \o <<Digits[(n % 10) + 1]>>

HasSign(s) == Len(s) > 0 /\ s[1] \in {"+", "-"}

Unsigned(s) == IF HasSign(s) THEN Tail(s) ELSE s

Sign(s) == IF Len(s) > 0 /\ s[1] = "-" THEN -1 ELSE 1

DotPositions(s) == {i \in 1..Len(s) : s[i] = "."}

\* int(s): optional sign, then one or more digits; anything else is ValueError
IntOk(s) == Len(Unsigned(s)) > 0 /\ AllDigits(Unsigned(s))

int(s) == Sign(s) * DigitsVal(Unsigned(s))

\* float(s): optional sign, digits with at most one ".", at least one digit;
\* anything else is ValueError.  The value is in cents.
IntPart(u) ==
    IF DotPositions(u) = {} THEN u
    ELSE SubSeq(u, 1, (CHOOSE i \in DotPositions(u) : TRUE) - 1)

FracPart(u) ==
    IF DotPositions(u) = {} THEN <<>>
    ELSE SubSeq(u, (CHOOSE i \in DotPositions(u) : TRUE) + 1, Len(u))

FloatOk(s) ==
    LET u == Unsigned(s) IN
        /\ Cardinality(DotPositions(u)) <= 1
        /\ AllDigits(IntPart(u))
        /\ AllDigits(FracPart(u))
        /\ Len(IntPart(u)) + Len(FracPart(u)) > 0

FracCents(f) ==
    IF Len(f) = 0 THEN 0
    ELSE IF Len(f) = 1 THEN 10 * DigitVal(f[1])
    ELSE 10 * DigitVal(f[1]) + DigitVal(f[2])

float(s) ==
    LET u == Unsigned(s) IN
        Sign(s) * (100 * DigitsVal(IntPart(u)) + FracCents(FracPart(u)))

\* filename.split(".")[-1] if "." in filename else "pdf"
Extension(filename) ==
    IF DotPositions(filename) = {} THEN <<"p", "d", "f">>
    ELSE LET last == CHOOSE i \in DotPositions(filename) :
                         \A j \in DotPositions(filename) : j <= i
         IN  SubSeq(filename, last + 1, Len(filename))

(***************************************************************************)
(* Form values                                                             *)
(***************************************************************************)
None == [kind |-> "none", val |-> <<>>]

Str(s) == [kind |-> "str", val |-> s]

UploadFile(filename) == [kind |-> "file", val |-> filename]

\* Python truthiness: None and "" are falsy, an UploadFile object is truthy
Truthy(v) == v.kind = "file" \/ (v.kind = "str" /\ v.val # <<>>)

\* hasattr(v, "filename")
HasFilename(v) == v.kind = "file"

(***************************************************************************)
(* String literals of the payloads                                         *)
(***************************************************************************)
sCAD == <<"C", "A", "D">>
sUSD == <<"U", "S", "D">>
sEUR == <<"E", "U", "R">>
sAcme == <<"A", "c", "m", "e">>
sInvPdf == <<"i", "n", "v", ".", "p", "d", "f">>
sScan == <<"s", "c", "a", "n">>
sPayPng == <<"p", "a", "y", ".", "v", "1", ".", "p", "n", "g">>
sAbc == <<"a", "b", "c">>
sUse == <<"u", "s", "e">>

(***************************************************************************)
(* The flat form payload.  A key is <<field, form number, item number>>,   *)
(* item number 0 for the fields of the form itself: vendor_name_3 is       *)
(* <<"vendor_name", 3, 0>>, item_price_3_2 is <<"item_price", 3, 2>>.      *)
(* A payload is built from a structured description p (form number ->      *)
(* fields, None for a field the payload does not carry).                   *)
(***************************************************************************)
CADFields ==
    <<"subtotal_amount", "discount_amount", "hst_gst_amount",
      "shipping_amount", "total_amount">>

USDFields == <<"us_total", "usd_taxes", "canadian_amount">>

AmountFields ==
    {CADFields[i] : i \in 1..Len(CADFields)} \cup {USDFields[i] : i \in 1..Len(USDFields)}

FormFields ==
    {"vendor_name", "invoice_file", "proof_of_payment", "currency"} \cup AmountFields

ItemFields == {"item_name", "item_usage", "item_quantity", "item_price", "item_total"}

KeysOf(p) ==
    {k \in FormFields \X (DOMAIN p) \X {0} : p[k[2]][k[1]] # None}
    \cup UNION {{k \in ItemFields \X {n} \X (DOMAIN p[n].items) :
                     p[n].items[k[3]][k[1]] # None} : n \in DOMAIN p}

FlatPayload(p) ==
    [k \in KeysOf(p) |->
        IF k[3] = 0 THEN p[k[2]][k[1]] ELSE p[k[2]].items[k[3]][k[1]]]

\* ---- amounts of one form ----
AmountsAbsent == [f \in AmountFields |-> None]

AmountsEmpty == [f \in AmountFields |-> Str(<<>>)]

AmountsPresent ==
    [subtotal_amount |-> Str(<<"8", "0", ".", "0", "0">>),
     discount_amount |-> Str(<<"5">>),
     hst_gst_amount  |-> Str(<<"9", ".", "7", "5">>),
     shipping_amount |-> Str(<<"1", "5", ".", "2", "5">>),
     total_amount    |-> Str(<<"1", "0", "0">>),
     us_total        |-> Str(<<"4", "0", ".", "5">>),
     usd_taxes       |-> Str(<<"2", ".", "5", "0">>),
     canadian_amount |-> Str(<<"5", "0">>)]

AmountsBadCAD == [AmountsPresent EXCEPT !["total_amount"] = Str(sAbc)]

AmountsBadUSD == [AmountsPresent EXCEPT !["us_total"] = Str(<<"4", "0", ",", "5">>)]

AmountProfiles ==
    {AmountsAbsent, AmountsEmpty, AmountsPresent, AmountsBadCAD, AmountsBadUSD}

\* ---- items of one form; the name of an item carries its number ----
ItemName(m) == <<"i", "t", "e", "m">> \o IntToStr(m)

ItemAbsent ==
    [item_name |-> None, item_usage |-> None, item_quantity |-> None,
     item_price |-> None, item_total |-> None]

ItemComplete(m) ==
    [item_name |-> Str(ItemName(m)), item_usage |-> Str(sUse),
     item_quantity |-> Str(IntToStr(m + 1)),
     item_price |-> Str(<<"1", ".", "5", "0">>),
     item_total |-> Str(<<"9", ".", "9", "9">>)]

ItemNoTotal(m) == [ItemComplete(m) EXCEPT !.item_total = None]

ItemNoUsage(m) == [ItemComplete(m) EXCEPT !.item_usage = None]

ItemBadQuantity(m) == [ItemComplete(m) EXCEPT !.item_quantity = Str(<<"2", ".", "5">>)]

ItemCases(m) ==
    {ItemAbsent, ItemComplete(m), ItemNoTotal(m), ItemNoUsage(m), ItemBadQuantity(m)}

\* rarer shapes of an item, tried on the first two item numbers only
ItemVariants(m) ==
    {ItemComplete(m),
     ItemAbsent,
     [ItemComplete(m) EXCEPT !.item_name = Str(<<>>)],
     [ItemComplete(m) EXCEPT !.item_usage = Str(<<>>)],
     [ItemComplete(m) EXCEPT !.item_quantity = None],
     [ItemComplete(m) EXCEPT !.item_price = None],
     [ItemComplete(m) EXCEPT !.item_price = Str(sAbc)],
     [ItemComplete(m) EXCEPT !.item_total = Str(<<>>)],
     [ItemComplete(m) EXCEPT !.item_total = Str(<<"1", ".", "2", ".", "3">>)],
     [ItemComplete(m) EXCEPT !.item_quantity = Str(<<"0">>)],
     [ItemComplete(m) EXCEPT !.item_quantity = Str(<<"-", "3">>)],
     [ItemComplete(m) EXCEPT !.item_price = Str(<<"-", ".", "5">>)]}

RECURSIVE ItemListsTo(_)
ItemListsTo(k) ==
    IF k = 0 THEN {<<>>}
    ELSE {Append(il, c) : il \in ItemListsTo(k - 1), c \in ItemCases(k)}

ItemLists == ItemListsTo(MaxItemFields)

ItemVariantLists == {<<a, b>> : a \in ItemVariants(1), b \in ItemVariants(2)}

\* ---- one form ----
Form(vendor, invoice, proof, cur, amounts, items) ==
    [vendor_name |-> vendor, invoice_file |-> invoice, proof_of_payment |-> proof,
     currency |-> cur, items |-> items] @@ amounts

ValidCAD ==
    Form(Str(sAcme), UploadFile(sInvPdf), None, Str(sCAD), AmountsPresent,
         <<ItemComplete(1)>>)

ValidUSD ==
    Form(Str(sAcme), UploadFile(sScan), UploadFile(sPayPng), Str(sUSD), AmountsPresent,
         <<ItemComplete(1), ItemNoTotal(2)>>)

MalformedCAD ==
    Form(Str(sAcme), UploadFile(sInvPdf), None, Str(sCAD), AmountsBadCAD,
         <<ItemComplete(1)>>)

\* every combination of the fields the skip rules and the currency branch read
HeaderForms ==
    {Form(v, i, pp, c, a, il) :
        v \in {None, Str(<<>>), Str(sAcme)},
        i \in {None, Str(sInvPdf), UploadFile(sInvPdf), UploadFile(<<>>)},
        pp \in {None, Str(sPayPng), UploadFile(sPayPng)},
        c \in {None, Str(<<>>), Str(sCAD), Str(sUSD), Str(sEUR)},
        a \in AmountProfiles,
        il \in {<<>>, <<ItemComplete(1)>>}}

\* every combination of item shapes under a valid form
ItemForms ==
    {Form(Str(sAcme), UploadFile(sInvPdf), None, Str(sCAD), AmountsPresent, il) :
        il \in ItemLists \cup ItemVariantLists}

SimpleForms == {ValidCAD, ValidUSD, MalformedCAD}

\* the form numbers a payload may carry fields for: one more than the loop reads
PayloadForms == 1..(MaxForms + 1)

FilledSets == {S \in SUBSET PayloadForms : Cardinality(S) <= MaxFilled}

\* form f as the user fills it in at form number n: the vendor name carries n
At(f, n) == [f EXCEPT !.vendor_name = Str(f.vendor_name.val \o IntToStr(n))]

Payloads ==
    {[n \in {1} |-> f] : f \in HeaderForms \cup ItemForms}
    \cup UNION {{[n \in S |-> At(g[n], n)] : g \in [S -> SimpleForms]} : S \in FilledSets}

(***************************************************************************)
(* State of one run of submit_all_requests                                 *)
(***************************************************************************)
VARIABLES
    form_data,         \* the flat payload: key -> form value
    failing,           \* the collaborators that fail in this run (environment)
    pc,                \* position of the handler
    form_num,          \* index of the form loop
    submitted_forms,   \* the assembled list
    session_files,     \* paths written under the session folder
    calls,             \* collaborators invoked so far, in order
    sheet_rows,        \* total cells of the rows appended to the sheet log
    drive_folder_id,   \* "" until the drive folder was created
    uploaded_files,    \* paths of the session files stored in the drive folder
    response           \* what the handler answered

handler_vars ==
    <<form_data, failing, pc, form_num, submitted_forms, session_files, calls,
      sheet_rows, drive_folder_id, uploaded_files, response>>

(***************************************************************************)
(* State of concurrent submissions sharing the sessions directory          *)
(***************************************************************************)
VARIABLES
    now,               \* the wall clock, in seconds
    submissions,       \* submission -> [name, at, session_folder]
    sessions           \* the sessions directory: folder -> file name -> writer

session_vars == <<now, submissions, sessions>>

(***************************************************************************)
(* State of one retried external call                                      *)
(***************************************************************************)
VARIABLES
    retry_call,        \* which call runs: "append_row", "upload_file" or "none"
    attempts,          \* outcome of each attempt made so far, in order
    delays,            \* the sleeps between attempts, in milliseconds
    retry_result       \* "pending", "returned", "raised" or "none" (returns None)

retry_vars == <<retry_call, attempts, delays, retry_result>>

(***************************************************************************)
(* State of one parallel upload_session_folder                             *)
(***************************************************************************)
VARIABLES
    files_to_upload,   \* the files found in the session folder
    pool_stage,        \* "start", "pool" (inside the with block), "done"
    future,            \* file -> "queued", "running", or how its upload ended
    failed_files,      \* the list failed_files
    uploaded_list,     \* the list uploaded_files as a bag: name -> number of entries
    retry_index        \* how many of failed_files were retried sequentially

pool_vars ==
    <<files_to_upload, pool_stage, future, failed_files, uploaded_list, retry_index>>

(***************************************************************************)
(* State of the signature files of one session folder: the upload handled  *)
(* by submit_request and the insertion into a worksheet                    *)
(***************************************************************************)
VARIABLES
    signature_files,           \* file name -> what the file holds
    sig_failing,               \* the image and file operations that fail (environment)
    sig_pc,                    \* position of submit_request
    signature_upload,          \* signature.filename of the upload
    final_signature_filename,  \* the name handed downstream: user_info['signature']
    signature_data,            \* what user.signature_data holds, "none" if unset
    insert_call,               \* the insertion function that ran, "none" before
    signature_type,            \* "processed", "original_png", "original" or "none"
    embedded,                  \* the file given to image.Image, <<>> if none
    inserted                   \* "pending", "True" or "False"

signature_vars ==
    <<signature_files, sig_failing, sig_pc, signature_upload, final_signature_filename,
      signature_data, insert_call, signature_type, embedded, inserted>>

\* The image handed to trim_whitespace and what it gave back
VARIABLES
    source_img,  \* the image the first call opened, rows of pixels
    img,  \* the image the last call returned
    trim_calls  \* how many times trim_whitespace ran

image_vars == <<source_img, img, trim_calls>>

\* One call of convert_signature_to_png
VARIABLES
    image_size,  \* width and height of the image of the input file
    opens,  \* whether the file opens as an image and the PNG can be written
    png_size,  \* width and height of the PNG written, <<>> if none
    convert_result  \* True or False as the call returned it

convert_vars == <<image_size, opens, png_size, convert_result>>

\* The users table, the browser's session and the request handled last
VARIABLES
    users,  \* the rows of the users table, by id
    session,  \* request.session: authenticated (False when unset) and user_email
    last_request  \* the endpoint requested last, its form fields and whether its handler ran

account_vars == <<users, session, last_request>>

\* One run of a workbook generator over a list of assembled records
VARIABLES
    report_forms,  \* the records handed to the generator
    generator,  \* the generator that ran, "none" before
    divisors,  \* the divisors of the divisions it evaluated, in order
    workbook_result  \* "saved", or the exception that left it

workbook_vars == <<report_forms, generator, divisors, workbook_result>>

\* Concurrent submissions and the folders of the shared drive
VARIABLES
    drive_folders,  \* the folders on the drive, in the order of their creation: name and parent
    drive_pc  \* where the handler of each submission stands

drive_vars == <<drive_folders, drive_pc>>

vars == <<handler_vars, session_vars, retry_vars, pool_vars, signature_vars,
         image_vars,
         convert_vars,
         account_vars,
         workbook_vars,
         drive_vars>>

\* what the steps of one component leave alone
outside_handler == <<session_vars, retry_vars, pool_vars, signature_vars,
      image_vars,
      convert_vars,
      account_vars,
      workbook_vars,
      drive_vars>>

outside_sessions == <<handler_vars, retry_vars, pool_vars, signature_vars,
      image_vars,
      convert_vars,
      account_vars,
      workbook_vars,
      drive_vars>>

outside_retry == <<handler_vars, session_vars, pool_vars, signature_vars,
      image_vars,
      convert_vars,
      account_vars,
      workbook_vars,
      drive_vars>>

outside_pool == <<handler_vars, session_vars, retry_vars, signature_vars,
      image_vars,
      convert_vars,
      account_vars,
      workbook_vars,
      drive_vars>>

outside_signature == <<handler_vars, session_vars, retry_vars, pool_vars,
      image_vars,
      convert_vars,
      account_vars,
      workbook_vars,
      drive_vars>>

outside_image ==
    <<handler_vars, session_vars, retry_vars, pool_vars, signature_vars,
      convert_vars,
      account_vars,
      workbook_vars,
      drive_vars>>

outside_convert ==
    <<handler_vars, session_vars, retry_vars, pool_vars, signature_vars, image_vars,
      account_vars,
      workbook_vars,
      drive_vars>>

outside_account ==
    <<handler_vars, session_vars, retry_vars, pool_vars, signature_vars, image_vars, convert_vars,
      workbook_vars,
      drive_vars>>

outside_workbook ==
    <<handler_vars, session_vars, retry_vars, pool_vars, signature_vars, image_vars, convert_vars, account_vars,
      drive_vars>>

outside_drive ==
    <<handler_vars, session_vars, retry_vars, pool_vars, signature_vars, image_vars, convert_vars, account_vars, workbook_vars>>

NoDrive ==
    /\ drive_folders = <<>>
    /\ drive_pc = <<>>

NoWorkbook ==
    /\ report_forms = <<>>
    /\ generator = "none"
    /\ divisors = <<>>
    /\ workbook_result = "none"

NoAccounts ==
    /\ users = <<>>
    /\ session = <<>>
    /\ last_request = <<>>

NoConversion ==
    /\ image_size = <<>>
    /\ opens = FALSE
    /\ png_size = <<>>
    /\ convert_result = "none"

NoImages ==
    /\ source_img = <<>>
    /\ img = <<>>
    /\ trim_calls = 0

NoSignature ==
    /\ signature_files = <<>>
    /\ sig_failing = {}
    /\ sig_pc = "none"
    /\ signature_upload = <<>>
    /\ final_signature_filename = <<>>
    /\ signature_data = "none"
    /\ insert_call = "none"
    /\ signature_type = "none"
    /\ embedded = <<>>
    /\ inserted = "pending"

NoPool ==
    /\ files_to_upload = {}
    /\ pool_stage = "none"
    /\ future = <<>>
    /\ failed_files = <<>>
    /\ uploaded_list = <<>>
    /\ retry_index = 0

NoSubmissions ==
    /\ now = 0
    /\ submissions = <<>>
    /\ sessions = <<>>

NoRetry ==
    /\ retry_call = "none"
    /\ attempts = <<>>
    /\ delays = <<>>
    /\ retry_result = "none"

OutsideHandlerIdle ==
    NoSubmissions /\ NoRetry /\ NoPool /\ NoSignature /\ NoImages /\ NoConversion
        /\ NoAccounts /\ NoWorkbook /\ NoDrive

Collaborators ==
    {"get_user_by_email", "save_signature_to_file", "create_purchase_request",
     "create_expense_report", "create_drive_folder_and_get_url",
     "log_purchase_request", "upload_session_to_drive", "_upload_file", "rmtree"}

\* payloads under which every combination of failing collaborators is tried
StepPayloads ==
    {[n \in {} |-> ValidCAD],
     [n \in {1} |-> ValidCAD],
     [n \in {1, 3} |-> IF n = 1 THEN At(ValidUSD, n) ELSE At(ValidCAD, n)]}

\* form_data.get(key, default)
Get(key, default) == IF key \in DOMAIN form_data THEN form_data[key] ELSE default

session_folder == <<"s", "e", "s", "s">>

InSession(filename) == session_folder \o <<"/">> \o filename

signature_filename ==
    <<"s", "i", "g", "n", "a", "t", "u", "r", "e", ".", "p", "n", "g">>

\* the workbooks written by create_purchase_request and create_expense_report
purchase_request_xlsx ==
    <<"p", "u", "r", "c", "h", "a", "s", "e", "_", "r", "e", "q", "u", "e", "s", "t",
      ".", "x", "l", "s", "x">>

expense_report_xlsx ==
    <<"E", "x", "p", "e", "n", "s", "e", "R", "e", "p", "o", "r", "t", ".", "x", "l", "s", "x">>

(***************************************************************************)
(* One iteration of the form loop, as functions of form_data               *)
(***************************************************************************)
vendor_name(n) == Get(<<"vendor_name", n, 0>>, None)

invoice_file(n) == Get(<<"invoice_file", n, 0>>, None)

proof_of_payment_file(n) == Get(<<"proof_of_payment", n, 0>>, None)

currency(n) == Get(<<"currency", n, 0>>, Str(sCAD))

IsUSD(n) == currency(n) = Str(sUSD)

\* if not vendor_name or not invoice_file or not hasattr(invoice_file, "filename")
SkipEmptyForm(n) ==
    \/ ~Truthy(vendor_name(n))
    \/ ~Truthy(invoice_file(n))
    \/ ~HasFilename(invoice_file(n))

\* mutants of SkipMissingProof: the rule dropped; the rule applied to every currency
SkipMissingProof_Never(n) == FALSE

SkipMissingProof_AnyCurrency(n) ==
    \/ ~Truthy(proof_of_payment_file(n))
    \/ ~HasFilename(proof_of_payment_file(n))

\* if currency == "USD" and (not proof or not hasattr(proof, "filename"))
SkipMissingProof(n) ==
    /\ IsUSD(n)
    /\ \/ ~Truthy(proof_of_payment_file(n))
       \/ ~HasFilename(proof_of_payment_file(n))

\* float(v or 0) raises for a truthy v that is no number
FloatRaises(v) == Truthy(v) /\ (v.kind # "str" \/ ~FloatOk(v.val))

FloatOrZero(v) == IF Truthy(v) THEN float(v.val) ELSE 0

\* int(v) for a truthy v
IntRaises(v) == v.kind # "str" \/ ~IntOk(v.val)

Amount(field, n) == FloatOrZero(Get(<<field, n, 0>>, None))

FinancialsRaise(n) ==
    IF IsUSD(n)
    THEN \E i \in 1..Len(USDFields) : FloatRaises(Get(<<USDFields[i], n, 0>>, None))
    ELSE \E i \in 1..Len(CADFields) : FloatRaises(Get(<<CADFields[i], n, 0>>, None))

\* mutant of Financials: the CAD branch also reads the USD fields
Financials_KeepsInactive(n) ==
    IF IsUSD(n)
    THEN [us_total        |-> Amount("us_total", n),
          usd_taxes       |-> Amount("usd_taxes", n),
          canadian_amount |-> Amount("canadian_amount", n),
          subtotal_amount |-> 0,
          discount_amount |-> 0,
          shipping_amount |-> 0,
          hst_gst_amount  |-> Amount("usd_taxes", n),
          total_amount    |-> Amount("canadian_amount", n)]
    ELSE [subtotal_amount |-> Amount("subtotal_amount", n),
          discount_amount |-> Amount("discount_amount", n),
          hst_gst_amount  |-> Amount("hst_gst_amount", n),
          shipping_amount |-> Amount("shipping_amount", n),
          total_amount    |-> Amount("total_amount", n),
          us_total        |-> Amount("us_total", n),
          usd_taxes       |-> Amount("usd_taxes", n),
          canadian_amount |-> Amount("canadian_amount", n)]

Financials(n) ==
    IF IsUSD(n)
    THEN [us_total        |-> Amount("us_total", n),
          usd_taxes       |-> Amount("usd_taxes", n),
          canadian_amount |-> Amount("canadian_amount", n),
          subtotal_amount |-> 0,
          discount_amount |-> 0,
          shipping_amount |-> 0,
          hst_gst_amount  |-> Amount("usd_taxes", n),
          total_amount    |-> Amount("canadian_amount", n)]
    ELSE [subtotal_amount |-> Amount("subtotal_amount", n),
          discount_amount |-> Amount("discount_amount", n),
          hst_gst_amount  |-> Amount("hst_gst_amount", n),
          shipping_amount |-> Amount("shipping_amount", n),
          total_amount    |-> Amount("total_amount", n),
          us_total        |-> 0,
          usd_taxes       |-> 0,
          canadian_amount |-> 0]

item_name(n, m) == Get(<<"item_name", n, m>>, None)
item_usage(n, m) == Get(<<"item_usage", n, m>>, None)
item_quantity(n, m) == Get(<<"item_quantity", n, m>>, None)
item_price(n, m) == Get(<<"item_price", n, m>>, None)
item_total(n, m) == Get(<<"item_total", n, m>>, None)

\* if item_name and item_usage and item_quantity and item_price
ItemIsComplete(n, m) ==
    /\ Truthy(item_name(n, m))
    /\ Truthy(item_usage(n, m))
    /\ Truthy(item_quantity(n, m))
    /\ Truthy(item_price(n, m))

ItemRaises(n, m) ==
    \/ IntRaises(item_quantity(n, m))
    \/ FloatRaises(item_price(n, m))
    \/ FloatRaises(item_total(n, m))

\* mutant of Item: a missing total is recomputed from quantity and price
Item_RecomputedTotal(n, m) ==
    [name       |-> item_name(n, m).val,
     usage      |-> item_usage(n, m).val,
     quantity   |-> int(item_quantity(n, m).val),
     unit_price |-> float(item_price(n, m).val),
     total      |-> IF Truthy(item_total(n, m)) THEN float(item_total(n, m).val)
                    ELSE int(item_quantity(n, m).val) * float(item_price(n, m).val)]

Item(n, m) ==
    [name       |-> item_name(n, m).val,
     usage      |-> item_usage(n, m).val,
     quantity   |-> int(item_quantity(n, m).val),
     unit_price |-> float(item_price(n, m).val),
     total      |-> FloatOrZero(item_total(n, m))]

\* mutant of ExtractItems: a missing name is stepped over (continue for break)
RECURSIVE ExtractItems_SkipsGap(_, _, _)
ExtractItems_SkipsGap(n, item_num, items) ==
    IF item_num >= ItemRangeEnd THEN [raised |-> FALSE, items |-> items]
    ELSE IF ~ItemIsComplete(n, item_num) THEN ExtractItems_SkipsGap(n, item_num + 1, items)
    ELSE IF ItemRaises(n, item_num) THEN [raised |-> TRUE, items |-> items]
    ELSE ExtractItems_SkipsGap(n, item_num + 1, Append(items, Item(n, item_num)))

\* the item loop from item_num on, items being the list built so far
RECURSIVE ExtractItems(_, _, _)
ExtractItems(n, item_num, items) ==
    IF item_num >= ItemRangeEnd THEN [raised |-> FALSE, items |-> items]
    ELSE IF ~Truthy(item_name(n, item_num)) THEN [raised |-> FALSE, items |-> items]
    ELSE IF ~ItemIsComplete(n, item_num) THEN ExtractItems(n, item_num + 1, items)
    ELSE IF ItemRaises(n, item_num) THEN [raised |-> TRUE, items |-> items]
    ELSE ExtractItems(n, item_num + 1, Append(items, Item(n, item_num)))

invoice_filename(n) ==
    IntToStr(n) \o <<"_">> \o vendor_name(n).val \o <<".">>
        \o Extension(invoice_file(n).val)

\* mutant of SavesProof: the proof of payment is saved whatever the currency
SavesProof_AnyCurrency(n) ==
    Truthy(proof_of_payment_file(n)) /\ HasFilename(proof_of_payment_file(n))

\* if currency == "USD" and proof_of_payment_file and hasattr(..., "filename")
SavesProof(n) ==
    IsUSD(n) /\ Truthy(proof_of_payment_file(n)) /\ HasFilename(proof_of_payment_file(n))

proof_of_payment_filename(n) ==
    IntToStr(n) \o <<"_", "p", "r", "o", "o", "f", "_", "o", "f", "_",
                     "p", "a", "y", "m", "e", "n", "t", ".">>
        \o Extension(proof_of_payment_file(n).val)

form_submission(n) ==
    [form_number |-> n,
     vendor_name |-> vendor_name(n).val,
     currency |-> currency(n).val,
     invoice_filename |-> invoice_filename(n),
     invoice_file_location |-> InSession(invoice_filename(n)),
     proof_of_payment_filename |->
         IF SavesProof(n) THEN Str(proof_of_payment_filename(n)) ELSE None,
     proof_of_payment_location |->
         IF SavesProof(n) THEN Str(InSession(proof_of_payment_filename(n))) ELSE None,
     items |-> ExtractItems(n, 1, <<>>).items] @@ Financials(n)

FilesOf(n) ==
    {InSession(invoice_filename(n))}
    \cup (IF SavesProof(n) THEN {InSession(proof_of_payment_filename(n))} ELSE {})

\* what the loop body does with form n
FormOutcome(n) ==
    IF SkipEmptyForm(n) THEN "skip_empty"
    ELSE IF SkipMissingProof(n) THEN "skip_no_proof"
    ELSE IF FinancialsRaise(n) THEN "raise"
    ELSE IF ExtractItems(n, 1, <<>>).raised THEN "raise"
    ELSE IF ExtractItems(n, 1, <<>>).items = <<>> THEN "skip_no_items"
    ELSE "append"

(***************************************************************************)
(* The sheet log                                                           *)
(***************************************************************************)
\* mutant of _calculate_total_amount: the branch tests for CAD instead of USD
RECURSIVE _calculate_total_amount_TestsCAD(_)
_calculate_total_amount_TestsCAD(forms) ==
    IF forms = <<>> THEN 0
    ELSE LET form == forms[Len(forms)] IN
         _calculate_total_amount_TestsCAD(SubSeq(forms, 1, Len(forms) - 1))
             + (IF form.currency = sCAD THEN form.total_amount
                                        ELSE form.canadian_amount)

RECURSIVE _calculate_total_amount(_)
_calculate_total_amount(forms) ==
    IF forms = <<>> THEN 0
    ELSE LET form == forms[Len(forms)] IN
         _calculate_total_amount(SubSeq(forms, 1, Len(forms) - 1))
             + (IF form.currency = sUSD THEN form.canadian_amount
                                        ELSE form.total_amount)

\* f"${total_amount:.2f}" of an amount in cents
Abs(x) == IF x < 0 THEN -x ELSE x

FormatCurrency(cents) ==
    <<"$">> \o (IF cents < 0 THEN <<"-">> ELSE <<>>)
        \o IntToStr(Abs(cents) \div 100) \o <<".">>
        \o <<Digits[((Abs(cents) % 100) \div 10) + 1], Digits[(Abs(cents) % 10) + 1]>>

(***************************************************************************)
(* The handler                                                             *)
(***************************************************************************)
\* the handler before its first statement
AtStart ==
    /\ pc = "start"
    /\ form_num = 1
    /\ submitted_forms = <<>>
    /\ session_files = {}
    /\ calls = <<>>
    /\ sheet_rows = <<>>
    /\ drive_folder_id = <<>>
    /\ uploaded_files = {}
    /\ response = "none"

\* no request is being handled
HandlerIdle ==
    /\ form_data = <<>>
    /\ failing = {}
    /\ pc = "idle"
    /\ form_num = 1
    /\ submitted_forms = <<>>
    /\ session_files = {}
    /\ calls = <<>>
    /\ sheet_rows = <<>>
    /\ drive_folder_id = <<>>
    /\ uploaded_files = {}
    /\ response = "none"

Init ==
    /\ \/ /\ form_data \in {FlatPayload(p) : p \in Payloads}
          /\ failing = {}
       \/ /\ form_data \in {FlatPayload(p) : p \in StepPayloads}
          /\ failing \in SUBSET Collaborators
    /\ AtStart
    /\ OutsideHandlerIdle

\* create_session_folder, get_user_by_email, save_signature_to_file
LookupUser ==
    /\ pc = "start"
    /\ IF "get_user_by_email" \in failing
       THEN /\ pc' = "done"
            /\ response' = "error_404"
            /\ calls' = Append(calls, "get_user_by_email")
            /\ UNCHANGED session_files
       ELSE /\ pc' = "forms"
            /\ response' = response
            /\ calls' = calls \o <<"get_user_by_email", "save_signature_to_file">>
            /\ session_files' =
                   IF "save_signature_to_file" \in failing THEN {}
                   ELSE {InSession(signature_filename)}
    /\ UNCHANGED <<form_data, failing, form_num, submitted_forms, sheet_rows,
                   drive_folder_id, uploaded_files>>
    /\ UNCHANGED outside_handler

\* mutant of ProcessForm: the loop runs one form further
ProcessForm_OneMore ==
    /\ pc = "forms"
    /\ form_num <= MaxForms + 1
    /\ LET outcome == FormOutcome(form_num) IN
        /\ submitted_forms' =
               IF outcome = "append"
               THEN Append(submitted_forms, form_submission(form_num))
               ELSE submitted_forms
        /\ session_files' =
               IF outcome = "append"
               THEN session_files \cup FilesOf(form_num)
               ELSE session_files
        /\ pc' = IF outcome = "raise" THEN "done" ELSE pc
        /\ response' = IF outcome = "raise" THEN "error_500" ELSE response
        /\ form_num' = IF outcome = "raise" THEN form_num ELSE form_num + 1
    /\ UNCHANGED <<form_data, failing, calls, sheet_rows, drive_folder_id, uploaded_files>>
    /\ UNCHANGED outside_handler

\* one iteration of: for form_num in range(1, 11)
ProcessForm ==
    /\ pc = "forms"
    /\ form_num <= MaxForms
    /\ LET outcome == FormOutcome(form_num) IN
        /\ submitted_forms' =
               IF outcome = "append"
               THEN Append(submitted_forms, form_submission(form_num))
               ELSE submitted_forms
        /\ session_files' =
               IF outcome = "append"
               THEN session_files \cup FilesOf(form_num)
               ELSE session_files
        /\ pc' = IF outcome = "raise" THEN "done" ELSE pc
        /\ response' = IF outcome = "raise" THEN "error_500" ELSE response
        /\ form_num' = IF outcome = "raise" THEN form_num ELSE form_num + 1
    /\ UNCHANGED <<form_data, failing, calls, sheet_rows, drive_folder_id, uploaded_files>>
    /\ UNCHANGED outside_handler

\* else: redirect to /dashboard?...&error=no_forms
NoForms ==
    /\ pc = "forms"
    /\ form_num > MaxForms
    /\ submitted_forms = <<>>
    /\ pc' = "done"
    /\ response' = "redirect_no_forms"
    /\ UNCHANGED <<form_data, failing, form_num, submitted_forms, session_files,
                   calls, sheet_rows, drive_folder_id, uploaded_files>>
    /\ UNCHANGED outside_handler

\* mutant of CreatePurchaseRequest: the test "if submitted_forms" dropped
CreatePurchaseRequest_Unguarded ==
    /\ pc = "forms"
    /\ form_num > MaxForms
    /\ pc' = "create_expense_report"
    /\ calls' = Append(calls, "create_purchase_request")
    /\ session_files' =
           IF "create_purchase_request" \in failing THEN session_files
           ELSE session_files \cup {InSession(purchase_request_xlsx)}
    /\ UNCHANGED <<form_data, failing, form_num, submitted_forms,
                   sheet_rows, drive_folder_id, uploaded_files, response>>
    /\ UNCHANGED outside_handler

\* if submitted_forms: try: create_purchase_request(...) except: log
CreatePurchaseRequest ==
    /\ pc = "forms"
    /\ form_num > MaxForms
    /\ submitted_forms # <<>>
    /\ pc' = "create_expense_report"
    /\ calls' = Append(calls, "create_purchase_request")
    /\ session_files' =
           IF "create_purchase_request" \in failing THEN session_files
           ELSE session_files \cup {InSession(purchase_request_xlsx)}
    /\ UNCHANGED <<form_data, failing, form_num, submitted_forms,
                   sheet_rows, drive_folder_id, uploaded_files, response>>
    /\ UNCHANGED outside_handler

CreateExpenseReport ==
    /\ pc = "create_expense_report"
    /\ pc' = "create_drive_folder"
    /\ calls' = Append(calls, "create_expense_report")
    /\ session_files' =
           IF "create_expense_report" \in failing THEN session_files
           ELSE session_files \cup {InSession(expense_report_xlsx)}
    /\ UNCHANGED <<form_data, failing, form_num, submitted_forms,
                   sheet_rows, drive_folder_id, uploaded_files, response>>
    /\ UNCHANGED outside_handler

\* mutant of CreateDriveFolder: a failure is not caught and ends the request
CreateDriveFolder_Propagates ==
    /\ pc = "create_drive_folder"
    /\ calls' = Append(calls, "create_drive_folder_and_get_url")
    /\ IF "create_drive_folder_and_get_url" \in failing
       THEN pc' = "done" /\ response' = "error_500" /\ drive_folder_id' = <<>>
       ELSE pc' = "log_to_sheets" /\ response' = response
                /\ drive_folder_id' = <<"i", "d">>
    /\ UNCHANGED <<form_data, failing, form_num, submitted_forms, session_files,
                   sheet_rows, uploaded_files>>
    /\ UNCHANGED outside_handler

\* try: create_drive_folder_and_get_url(...) except: log
CreateDriveFolder ==
    /\ pc = "create_drive_folder"
    /\ pc' = "log_to_sheets"
    /\ calls' = Append(calls, "create_drive_folder_and_get_url")
    /\ drive_folder_id' =
           IF "create_drive_folder_and_get_url" \in failing THEN <<>>
           ELSE <<"i", "d">>
    /\ UNCHANGED <<form_data, failing, form_num, submitted_forms, session_files,
                   sheet_rows, uploaded_files, response>>
    /\ UNCHANGED outside_handler

\* GoogleSheetsClient().log_purchase_request(user_info, submitted_forms, ...)
log_purchase_request ==
    /\ pc = "log_to_sheets"
    /\ pc' = "upload"
    /\ calls' = Append(calls, "log_purchase_request")
    /\ sheet_rows' =
           IF "log_purchase_request" \in failing THEN sheet_rows
           ELSE Append(sheet_rows,
                       FormatCurrency(_calculate_total_amount(submitted_forms)))
    /\ UNCHANGED <<form_data, failing, form_num, submitted_forms, session_files,
                   drive_folder_id, uploaded_files, response>>
    /\ UNCHANGED outside_handler

\* upload_session_to_drive, then shutil.rmtree(session_folder) if it returned True.
\* upload_session_folder returns False when it cannot authenticate, cannot create
\* the drive folder or finds no session folder; once it reaches the file loop it
\* returns True, whatever _upload_file returned for each file.
UploadToDrive ==
    /\ pc = "upload"
    /\ pc' = "redirect"
    /\ IF "upload_session_to_drive" \in failing
       THEN /\ calls' = Append(calls, "upload_session_to_drive")
            /\ UNCHANGED <<session_files, uploaded_files>>
       ELSE /\ calls' = calls \o <<"upload_session_to_drive", "rmtree">>
            /\ uploaded_files' =
                   IF "_upload_file" \in failing THEN {} ELSE session_files
            /\ session_files' = IF "rmtree" \in failing THEN session_files ELSE {}
    /\ UNCHANGED <<form_data, failing, form_num, submitted_forms, sheet_rows,
                   drive_folder_id, response>>
    /\ UNCHANGED outside_handler

RedirectSuccess ==
    /\ pc = "redirect"
    /\ pc' = "done"
    /\ response' = "redirect_success"
    /\ UNCHANGED <<form_data, failing, form_num, submitted_forms, session_files,
                   calls, sheet_rows, drive_folder_id, uploaded_files>>
    /\ UNCHANGED outside_handler

Next ==
    \/ LookupUser
    \/ ProcessForm
    \/ NoForms
    \/ CreatePurchaseRequest
    \/ CreateExpenseReport
    \/ CreateDriveFolder
    \/ log_purchase_request
    \/ UploadToDrive
    \/ RedirectSuccess

Spec == Init /\ [][Next]_vars

\* the runs in which every combination of the external steps may fail; the handler
\* is straight-line code, so a step that can be taken is taken
ExternalCollaborators ==
    {"create_drive_folder_and_get_url", "log_purchase_request",
     "upload_session_to_drive", "_upload_file", "rmtree"}

StepInit ==
    /\ form_data \in {FlatPayload(p) : p \in StepPayloads}
    /\ failing \in SUBSET ExternalCollaborators
    /\ AtStart
    /\ OutsideHandlerIdle

FairStepSpec == StepInit /\ [][Next]_vars /\ WF_vars(Next)

(***************************************************************************)
(* Vocabulary of the properties, read off the payload and the list         *)
(***************************************************************************)
Records == {submitted_forms[i] : i \in 1..Len(submitted_forms)}

HasRecord(n) == \E r \in Records : r.form_number = n

Field(name, n, m) == Get(<<name, n, m>>, None)

\* the payload carries the field and it is not the empty string
NonEmpty(v) == v # None /\ v # Str(<<>>)

IsUpload(v) == v.kind = "file"

\* the loop has ended its iteration for form n
Finished(n) == n < form_num

\* the handler ran the whole form loop
LoopEnded == form_num > MaxForms

ItemNumbers(n) == {k[3] : k \in {kk \in DOMAIN form_data : kk[2] = n /\ kk[3] > 0}}

\* the first item number of form n without a name
FirstGap(n) ==
    CHOOSE m \in 1..(Cardinality(ItemNumbers(n)) + 1) :
        /\ ~NonEmpty(Field("item_name", n, m))
        /\ \A k \in 1..(m - 1) : NonEmpty(Field("item_name", n, k))

\* the contiguous run of named items of form n
NamedRun(n) == 1..(FirstGap(n) - 1)

CompleteItems(n) ==
    {m \in NamedRun(n) :
        /\ NonEmpty(Field("item_usage", n, m))
        /\ NonEmpty(Field("item_quantity", n, m))
        /\ NonEmpty(Field("item_price", n, m))}

\* the fields of form n are exactly those of the form f
FieldsAre(n, f) ==
    /\ \A name \in FormFields : Field(name, n, 0) = f[name]
    /\ ItemNumbers(n) \subseteq DOMAIN f.items
    /\ \A m \in DOMAIN f.items : \A name \in ItemFields :
           Field(name, n, m) = f.items[m][name]

(***************************************************************************)
(* C1: every record appended to the assembled list has a non-empty vendor  *)
(* name, an invoice upload, a non-empty item list and, when its currency   *)
(* is USD, a proof-of-payment upload with its file name set.               *)
(***************************************************************************)
C1_AssembledRecordsComplete ==
    \A r \in Records :
        /\ r.vendor_name # <<>>
        /\ IsUpload(Field("invoice_file", r.form_number, 0))
        /\ r.invoice_filename # <<>>
        /\ r.items # <<>>
        /\ r.currency = sUSD =>
               /\ IsUpload(Field("proof_of_payment", r.form_number, 0))
               /\ r.proof_of_payment_filename # None

C1_Witness ==
    \E r \in Records :
        /\ r.currency = sUSD
        /\ r.proof_of_payment_filename # None
        /\ r.items # <<>>

(***************************************************************************)
(* C2: a form with a vendor name, an invoice upload, at least one complete *)
(* item and no proof-of-payment upload yields no record when its currency  *)
(* is USD and yields a record when its currency is CAD.                    *)
(***************************************************************************)
C2_GateCase(n) ==
    /\ NonEmpty(Field("vendor_name", n, 0))
    /\ IsUpload(Field("invoice_file", n, 0))
    /\ ~IsUpload(Field("proof_of_payment", n, 0))
    /\ CompleteItems(n) # {}

C2_UsdProofGate ==
    \A n \in 1..MaxForms :
        (Finished(n) /\ C2_GateCase(n)) =>
            /\ Field("currency", n, 0) = Str(sUSD) => ~HasRecord(n)
            /\ Field("currency", n, 0) = Str(sCAD) => HasRecord(n)

C2_Witness ==
    \E n \in 1..MaxForms :
        /\ Finished(n)
        /\ C2_GateCase(n)
        /\ Field("currency", n, 0) = Str(sUSD)
        /\ ~HasRecord(n)
        /\ response = "redirect_no_forms"

(***************************************************************************)
(* C3 as stated: in a USD record subtotal, discount, tax, shipping and     *)
(* total are all 0, in a CAD record us_total, usd_taxes and                *)
(* canadian_amount are all 0.                                              *)
(***************************************************************************)
C3_InactiveFieldsZero ==
    \A r \in Records :
        /\ r.currency = sUSD =>
               /\ r.subtotal_amount = 0
               /\ r.discount_amount = 0
               /\ r.hst_gst_amount = 0
               /\ r.shipping_amount = 0
               /\ r.total_amount = 0
        /\ r.currency = sCAD =>
               /\ r.us_total = 0
               /\ r.usd_taxes = 0
               /\ r.canadian_amount = 0

(***************************************************************************)
(* C3 amended: in a USD record subtotal, discount and shipping are 0, the  *)
(* tax field repeats usd_taxes and the total field repeats                 *)
(* canadian_amount; in every other record us_total, usd_taxes and          *)
(* canadian_amount are 0; every financial field of every record is set.    *)
(***************************************************************************)
C3_InactiveFieldsZeroOrMirrored ==
    \A r \in Records :
        /\ \A f \in AmountFields : f \in DOMAIN r /\ r[f] \in Int
        /\ r.currency = sUSD =>
               /\ r.subtotal_amount = 0
               /\ r.discount_amount = 0
               /\ r.shipping_amount = 0
               /\ r.hst_gst_amount = r.usd_taxes
               /\ r.total_amount = r.canadian_amount
        /\ r.currency # sUSD =>
               /\ r.us_total = 0
               /\ r.usd_taxes = 0
               /\ r.canadian_amount = 0

C3_Witness ==
    /\ \E r \in Records :
        /\ r.currency = sUSD
        /\ r.usd_taxes # 0
        /\ r.hst_gst_amount = r.usd_taxes
        /\ r.total_amount = r.canadian_amount
        /\ r.canadian_amount # 0
    /\ \E r \in Records :
        /\ r.currency = sCAD
        /\ NonEmpty(Field("canadian_amount", r.form_number, 0))
        /\ r.canadian_amount = 0

(***************************************************************************)
(* C4 as stated: malformed data of one form or item never aborts the       *)
(* handler; the form loop runs over all form numbers and every other form  *)
(* with valid fields is assembled.                                         *)
(***************************************************************************)
C4_MalformedNeverAborts ==
    /\ response # "error_500"
    /\ (pc = "done" /\ response # "error_404") =>
           /\ LoopEnded
           /\ \A n \in 1..MaxForms :
                  (FieldsAre(n, At(ValidCAD, n)) \/ FieldsAre(n, At(ValidUSD, n)))
                      => HasRecord(n)

(***************************************************************************)
(* C5: when the form loop ends with an empty assembled list the handler    *)
(* answers with the no_forms redirect, never with the success redirect,    *)
(* and calls none of workbook generation, drive folder creation, sheet     *)
(* logging or upload.                                                      *)
(***************************************************************************)
AfterAssembly ==
    {"create_purchase_request", "create_expense_report",
     "create_drive_folder_and_get_url", "log_purchase_request",
     "upload_session_to_drive", "rmtree"}

C5_EmptySubmissionReprompts ==
    submitted_forms = <<>> =>
        /\ response # "redirect_success"
        /\ \A i \in 1..Len(calls) : calls[i] \notin AfterAssembly
        /\ sheet_rows = <<>>
        /\ drive_folder_id = <<>>
        /\ (pc = "done" /\ LoopEnded) => response = "redirect_no_forms"
        /\ (pc # "done" /\ LoopEnded) => pc = "forms"

C5_Witness ==
    /\ pc = "done"
    /\ LoopEnded
    /\ submitted_forms = <<>>
    /\ response = "redirect_no_forms"
    /\ \E n \in 1..MaxForms : NonEmpty(Field("vendor_name", n, 0))

(***************************************************************************)
(* C6: the total cell of the sheet-log row is the sum over the assembled   *)
(* records of canadian_amount for the USD records and of total_amount for  *)
(* all others, written as $d.cc; the total of the empty list is 0.         *)
(***************************************************************************)
RECURSIVE SumOver(_, _, _)
SumOver(forms, indices, field) ==
    IF indices = {} THEN 0
    ELSE LET i == CHOOSE j \in indices : TRUE IN
         forms[i][field] + SumOver(forms, indices \ {i}, field)

ReimbursementOf(forms) ==
    SumOver(forms, {i \in 1..Len(forms) : forms[i].currency = sUSD}, "canadian_amount")
    + SumOver(forms, {i \in 1..Len(forms) : forms[i].currency # sUSD}, "total_amount")

C6_SheetTotalIsReimbursement ==
    /\ _calculate_total_amount(<<>>) = 0
    /\ _calculate_total_amount(submitted_forms) = ReimbursementOf(submitted_forms)
    /\ \A i \in 1..Len(sheet_rows) :
           sheet_rows[i] = FormatCurrency(ReimbursementOf(submitted_forms))

C6_Witness ==
    /\ Len(submitted_forms) = 2
    /\ \E r \in Records : r.currency = sCAD /\ r.total_amount = 10000
    /\ \E r \in Records : r.currency = sUSD /\ r.canadian_amount = 5000
    /\ sheet_rows = << <<"$", "1", "5", "0", ".", "0", "0">> >>

(***************************************************************************)
(* C7: the assembled list is in strictly increasing form_number order,     *)
(* every form_number is in 1..10 and is the number of the form whose       *)
(* fields the record holds; fields of form 11 produce no record, valid     *)
(* fields of form 10 do.                                                   *)
(***************************************************************************)
C7_FormNumbersInOrder ==
    /\ \A i \in 1..Len(submitted_forms) : \A j \in 1..Len(submitted_forms) :
           i < j => submitted_forms[i].form_number < submitted_forms[j].form_number
    /\ \A r \in Records :
           /\ r.form_number \in 1..10
           /\ r.form_number # 11
           /\ Finished(r.form_number)
           /\ r.vendor_name = Field("vendor_name", r.form_number, 0).val
           /\ r.currency = Field("currency", r.form_number, 0).val
                  \/ (Field("currency", r.form_number, 0) = None /\ r.currency = sCAD)
           /\ \A i \in 1..Len(r.items) : \E m \in ItemNumbers(r.form_number) :
                  r.items[i].name = Field("item_name", r.form_number, m).val
    /\ (Finished(10) /\ (FieldsAre(10, At(ValidCAD, 10)) \/ FieldsAre(10, At(ValidUSD, 10))))
           => HasRecord(10)

C7_Witness ==
    /\ pc = "done"
    /\ FieldsAre(11, At(ValidCAD, 11))
    /\ FieldsAre(10, At(ValidUSD, 10))
    /\ Len(submitted_forms) = 1
    /\ HasRecord(10)

(***************************************************************************)
(* C8: item extraction stops at the first item number without a name: no   *)
(* item numbered above that gap is in the record, so items 1, 2, 4 give    *)
(* the two items 1 and 2.                                                  *)
(***************************************************************************)
C8_ItemsStopAtFirstGap ==
    \A r \in Records : \A i \in 1..Len(r.items) :
        /\ \E m \in NamedRun(r.form_number) :
               r.items[i].name = Field("item_name", r.form_number, m).val
        /\ \A m \in ItemNumbers(r.form_number) :
               m > FirstGap(r.form_number) =>
                   r.items[i].name # Field("item_name", r.form_number, m).val

C8_Witness ==
    \E r \in Records :
        /\ FirstGap(r.form_number) = 3
        /\ NonEmpty(Field("item_name", r.form_number, 4))
        /\ NonEmpty(Field("item_usage", r.form_number, 4))
        /\ NonEmpty(Field("item_total", r.form_number, 4))
        /\ Len(r.items) = 2
        /\ r.items[1].name = ItemName(1)
        /\ r.items[2].name = ItemName(2)

(***************************************************************************)
(* C9: within the contiguous run of named items, the record holds exactly  *)
(* the items whose name, usage, quantity and unit price are all present,   *)
(* in order; an incomplete item is left out and the later ones are still   *)
(* read; the total of an item is the item_total supplied, or 0 when there  *)
(* is none.                                                                *)
(***************************************************************************)
NthOf(S, i) == CHOOSE m \in S : Cardinality({k \in S : k < m}) = i - 1

C9_ItemsAreTheCompleteOnes ==
    \A r \in Records :
        LET n == r.form_number IN
        /\ Len(r.items) = Cardinality(CompleteItems(n))
        /\ \A i \in 1..Len(r.items) :
               LET m == NthOf(CompleteItems(n), i) IN
               /\ r.items[i].name = Field("item_name", n, m).val
               /\ r.items[i].usage = Field("item_usage", n, m).val
               /\ r.items[i].quantity = int(Field("item_quantity", n, m).val)
               /\ r.items[i].unit_price = float(Field("item_price", n, m).val)
               /\ r.items[i].total =
                      IF NonEmpty(Field("item_total", n, m))
                      THEN float(Field("item_total", n, m).val) ELSE 0

C9_Witness ==
    \E r \in Records :
        /\ 1 \in NamedRun(r.form_number) \ CompleteItems(r.form_number)
        /\ 2 \in CompleteItems(r.form_number)
        /\ ~NonEmpty(Field("item_total", r.form_number, 2))
        /\ r.items[1].name = ItemName(2)
        /\ r.items[1].total = 0
        /\ r.items[1].quantity * r.items[1].unit_price # 0

(***************************************************************************)
(* C10 as stated: the currency of every assembled record is CAD or USD,    *)
(* whatever the currency field of the form holds.                          *)
(***************************************************************************)
C10_CurrencyIsCadOrUsd ==
    \A r \in Records : r.currency \in {sCAD, sUSD}

(***************************************************************************)
(* C11 as stated: every line item of every assembled record has a quantity *)
(* that is an integer of at least 1 and a unit price that is not negative. *)
(***************************************************************************)
C11_QuantityPositivePriceNonNegative ==
    \A r \in Records : \A i \in 1..Len(r.items) :
        /\ r.items[i].quantity \in Int
        /\ r.items[i].quantity >= 1
        /\ r.items[i].unit_price >= 0

(***************************************************************************)
(* C12: while the session folder has not been deleted, it holds the        *)
(* invoice file of form n exactly when form n has a record, and the        *)
(* proof-of-payment file of form n exactly when form n has a record whose  *)
(* currency is USD; a form without a record (skipped by any rule, or not   *)
(* assembled) has no file in the session folder.                           *)
(***************************************************************************)
HasPrefix(s, p) == Len(s) >= Len(p) /\ SubSeq(s, 1, Len(p)) = p

\* the files of the session folder whose name starts with "<n>_"
FilesOfForm(n) ==
    {f \in session_files : HasPrefix(f, InSession(IntToStr(n) \o <<"_">>))}

RecordOf(n) == CHOOSE r \in Records : r.form_number = n

SessionFolderDeleted ==
    \E i \in 1..Len(calls) : calls[i] = "rmtree" /\ "rmtree" \notin failing

C12_FilesExactlyOfRetainedForms ==
    ~SessionFolderDeleted =>
        \A n \in 1..(MaxForms + 1) :
            /\ InSession(invoice_filename(n)) \in session_files <=> HasRecord(n)
            /\ InSession(proof_of_payment_filename(n)) \in session_files
                   <=> (HasRecord(n) /\ RecordOf(n).currency = sUSD)
            /\ ~HasRecord(n) => FilesOfForm(n) = {}
            /\ Cardinality(FilesOfForm(n)) <= 2

C12_Witness ==
    /\ ~SessionFolderDeleted
    /\ LoopEnded
    /\ \E n \in 1..MaxForms :
           /\ HasRecord(n)
           /\ RecordOf(n).currency = sUSD
           /\ Cardinality(FilesOfForm(n)) = 2
    /\ \E n \in 1..MaxForms :
           /\ HasRecord(n)
           /\ RecordOf(n).currency = sCAD
           /\ Cardinality(FilesOfForm(n)) = 1
    /\ \E n \in 1..MaxForms : ~HasRecord(n) /\ FilesOfForm(n) = {}

(***************************************************************************)
(* C13: once at least one form is retained, whichever of drive folder      *)
(* creation, sheet logging and session upload fail, the handler answers    *)
(* with the success redirect and never with an error; none of these steps  *)
(* changes the assembled list, and none removes a file of the session      *)
(* folder, the deletion that follows a successful upload apart.            *)
(***************************************************************************)
ExternalSteps == {"create_drive_folder", "log_to_sheets", "upload"}

\* what one step taken from an external stage leaves as it was
ExternalStepKeeps ==
    pc \in ExternalSteps =>
        /\ submitted_forms' = submitted_forms
        /\ response' = response
        /\ pc' # "done"
        /\ \/ session_files \subseteq session_files'
           \/ pc = "upload" /\ "upload_session_to_drive" \notin failing

C13_ExternalFailuresCaught ==
    /\ [][ExternalStepKeeps]_vars
    /\ [](pc \in ExternalSteps \cup {"redirect"} => response = "none")
    /\ (LoopEnded /\ submitted_forms # <<>>)
           ~> (pc = "done" /\ response = "redirect_success")

C13_Witness ==
    /\ pc = "done"
    /\ response = "redirect_success"
    /\ {"create_drive_folder_and_get_url", "log_purchase_request",
         "upload_session_to_drive"} \subseteq failing
    /\ submitted_forms # <<>>
    /\ \A r \in Records : r.invoice_file_location \in session_files
    /\ InSession(purchase_request_xlsx) \in session_files
    /\ sheet_rows = <<>>
    /\ drive_folder_id = <<>>
    /\ uploaded_files = {}

(***************************************************************************)
(* C14 as stated: when a document template is absent (the generation of    *)
(* the purchase request or of the expense report fails), the request does  *)
(* not end as one whose documents were generated: it does not answer with  *)
(* the success redirect.                                                   *)
(***************************************************************************)
Called(c) == \E i \in 1..Len(calls) : calls[i] = c

DocumentGenerators == {"create_purchase_request", "create_expense_report"}

C14_MissingTemplateIsSignalled ==
    \A g \in DocumentGenerators :
        (pc = "done" /\ Called(g) /\ g \in failing) => response # "redirect_success"

(***************************************************************************)
(* C15 as stated: the session folder is deleted only after its files were  *)
(* stored in the drive folder: every file written for a record is, from    *)
(* then on, in the session folder or in the drive folder, and when the     *)
(* upload did not succeed the files are still in the session folder at the *)
(* end of the request.                                                     *)
(***************************************************************************)
RecordFiles ==
    UNION {{r.invoice_file_location} \cup
           (IF r.proof_of_payment_location = None THEN {}
            ELSE {r.proof_of_payment_location.val}) : r \in Records}

UploadDidNotSucceed ==
    Called("upload_session_to_drive") /\ ~(RecordFiles \subseteq uploaded_files)

C15_DeletedOnlyAfterUpload ==
    /\ RecordFiles \subseteq session_files \cup uploaded_files
    /\ (pc = "done" /\ UploadDidNotSucceed) => RecordFiles \subseteq session_files

(***************************************************************************)
(* Concurrent submissions: create_session_folder, the files a submission   *)
(* writes into its session folder and the final rmtree, interleaved        *)
(***************************************************************************)
sSessions == <<"s", "e", "s", "s", "i", "o", "n", "s", "/">>

sInvoice1 == <<"1", "_", "v", ".", "p", "d", "f">>

\* the names the users type into the form
UserNames == {<<"A", " ", "B">>, <<"a", "_", "b">>, <<"C">>}

Upper == <<"A", "B", "C", "G", "N", "P">>

LowerOf == <<"a", "b", "c", "g", "n", "p">>

\* str.lower() of one character
Lower(c) ==
    IF \E i \in 1..Len(Upper) : Upper[i] = c
    THEN LowerOf[CHOOSE i \in 1..Len(Upper) : Upper[i] = c]
    ELSE c

\* name.replace(" ", "_").lower()
safe_name(name) ==
    [i \in 1..Len(name) |-> Lower(IF name[i] = " " THEN "_" ELSE name[i])]

\* datetime.now().strftime("%Y-%m-%d_%H-%M-%S"): one string per second
Timestamp(t) == IntToStr(t)

\* f"sessions/{safe_name}_{timestamp}"
create_session_folder(name, t) ==
    sSessions \o safe_name(name) \o <<"_">> \o Timestamp(t)

Submissions == 1..MaxSubmissions

SessionInit ==
    /\ HandlerIdle
    /\ NoDrive
    /\ NoWorkbook
    /\ NoAccounts
    /\ NoConversion
    /\ NoImages
    /\ NoRetry
    /\ NoPool
    /\ NoSignature
    /\ now = 0
    /\ submissions \in
           [Submissions ->
               {[name |-> n, at |-> "start", session_folder |-> <<>>] : n \in UserNames}]
    /\ sessions = <<>>

\* session_folder = create_session_folder(name): os.makedirs(..., exist_ok=True)
CreateSessionFolder(s) ==
    /\ submissions[s].at = "start"
    /\ LET folder == create_session_folder(submissions[s].name, now) IN
        /\ submissions' =
               [submissions EXCEPT ![s].at = "created", ![s].session_folder = folder]
        /\ sessions' =
               IF folder \in DOMAIN sessions THEN sessions
               ELSE (folder :> <<>>) @@ sessions
    /\ UNCHANGED now
    /\ UNCHANGED outside_sessions

\* with open(invoice_file_location, "wb") as file_object: file_object.write(...)
SaveInvoice(s) ==
    /\ submissions[s].at = "created"
    /\ LET folder == submissions[s].session_folder IN
        IF folder \in DOMAIN sessions
        THEN /\ sessions' =
                    [sessions EXCEPT ![folder] = (sInvoice1 :> s) @@ sessions[folder]]
             /\ submissions' = [submissions EXCEPT ![s].at = "written"]
        ELSE /\ sessions' = sessions
             /\ submissions' = [submissions EXCEPT ![s].at = "failed"]
    /\ UNCHANGED now
    /\ UNCHANGED outside_sessions

\* try: shutil.rmtree(session_folder) except: log
CleanUp(s) ==
    /\ submissions[s].at = "written"
    /\ submissions' = [submissions EXCEPT ![s].at = "done"]
    /\ sessions' =
           [f \in DOMAIN sessions \ {submissions[s].session_folder} |-> sessions[f]]
    /\ UNCHANGED now
    /\ UNCHANGED outside_sessions

\* a second passes
Tick ==
    /\ now < MaxClock
    /\ now' = now + 1
    /\ UNCHANGED <<submissions, sessions>>
    /\ UNCHANGED outside_sessions

SessionNext ==
    \/ \E s \in Submissions : CreateSessionFolder(s)
    \/ \E s \in Submissions : SaveInvoice(s)
    \/ \E s \in Submissions : CleanUp(s)
    \/ Tick

SessionSpec == SessionInit /\ [][SessionNext]_vars

(***************************************************************************)
(* C16 as stated: in every interleaving no two submissions are assigned    *)
(* the same session folder, and no submission overwrites or deletes the    *)
(* files of another: a submission that wrote its invoice and has not yet   *)
(* cleaned up finds its own file in its folder, and no write fails.        *)
(***************************************************************************)
C16_SessionFoldersDistinct ==
    /\ \A s \in Submissions : \A t \in Submissions \ {s} :
           submissions[s].session_folder # <<>> =>
               submissions[s].session_folder # submissions[t].session_folder
    /\ \A s \in Submissions :
           submissions[s].at = "written" =>
               /\ submissions[s].session_folder \in DOMAIN sessions
               /\ sessions[submissions[s].session_folder][sInvoice1] = s
    /\ \A s \in Submissions : submissions[s].at # "failed"

(***************************************************************************)
(* The retried external calls: _append_row_with_retries of the sheets      *)
(* client and _upload_file of the drive client.  One action is one         *)
(* iteration of the retry loop; the environment picks how the call ends.   *)
(***************************************************************************)
\* HTTP 5xx, any other HttpError, the SSL "EOF occurred in violation of protocol"
\* error, any other socket or SSL error
Failures == {"http_5xx", "http_4xx", "ssl_eof", "network_other"}

Outcomes == {"ok"} \cup Failures

\* random.random() in milliseconds
Jitters == {0, 500, 999}

RECURSIVE Pow2(_)
Pow2(k) == IF k = 0 THEN 1 ELSE 2 * Pow2(k - 1)

RetryInit ==
    /\ HandlerIdle
    /\ NoDrive
    /\ NoWorkbook
    /\ NoAccounts
    /\ NoConversion
    /\ NoImages
    /\ NoSubmissions
    /\ NoPool
    /\ NoSignature
    /\ retry_call \in {"append_row", "upload_file"}
    /\ attempts = <<>>
    /\ delays = <<>>
    /\ retry_result = "pending"

\* what _append_row_with_retries retries: a 5xx HttpError, the SSL EOF error
AppendRetries(outcome) == outcome \in {"http_5xx", "ssl_eof"}

\* one iteration of: for attempt in range(1, max_attempts + 1)
_append_row_with_retries ==
    /\ retry_call = "append_row"
    /\ retry_result = "pending"
    /\ \E outcome \in Outcomes, jitter \in Jitters :
        LET attempt == Len(attempts) + 1 IN
        /\ attempts' = Append(attempts, outcome)
        /\ IF outcome = "ok"
           THEN retry_result' = "returned" /\ delays' = delays
           ELSE IF AppendRetries(outcome) /\ attempt < max_attempts
           THEN /\ retry_result' = "pending"
                /\ delays' = Append(delays, 1000 * Pow2(attempt - 1) + jitter)
           ELSE retry_result' = "raised" /\ delays' = delays
    /\ UNCHANGED retry_call
    /\ UNCHANGED outside_retry

\* what _upload_file retries: except (HttpError, Exception)
UploadRetries(outcome) == outcome \in Failures

\* one iteration of: for attempt in range(max_retries)
_upload_file ==
    /\ retry_call = "upload_file"
    /\ retry_result = "pending"
    /\ \E outcome \in Outcomes \cup {"file_not_found"} :
        LET attempt == Len(attempts) IN
        /\ attempts' = Append(attempts, outcome)
        /\ IF outcome = "file_not_found"
           THEN retry_result' = "none" /\ delays' = delays
           ELSE IF outcome = "ok"
           THEN retry_result' = "returned" /\ delays' = delays
           ELSE IF UploadRetries(outcome) /\ attempt < max_retries - 1
           THEN /\ retry_result' = "pending"
                /\ delays' = Append(delays, 1000 * Pow2(attempt))
           ELSE retry_result' = "none" /\ delays' = delays
    /\ UNCHANGED retry_call
    /\ UNCHANGED outside_retry

RetryNext == _append_row_with_retries \/ _upload_file

RetrySpec == RetryInit /\ [][RetryNext]_vars

(***************************************************************************)
(* C17 as stated: a retried call is attempted at most 5 times; an attempt  *)
(* is followed by another only if it failed with a transient error (HTTP   *)
(* 5xx or a network error); the delay before the k-th retry is 1 s doubled *)
(* k-1 times (up to a jitter below one second); no attempt follows a       *)
(* success; a non-transient failure, or the failure of the last attempt,   *)
(* ends the call with a failure.                                           *)
(***************************************************************************)
Transient == {"http_5xx", "ssl_eof", "network_other"}

C17_RetryPolicy ==
    /\ Len(attempts) <= 5
    /\ \A i \in 1..(Len(attempts) - 1) : attempts[i] \in Transient
    /\ Len(delays) <= Len(attempts)
    /\ \A k \in 1..Len(delays) :
           /\ delays[k] >= 1000 * Pow2(k - 1)
           /\ delays[k] < 1000 * Pow2(k - 1) + 1000
    /\ (attempts # <<>> /\ attempts[Len(attempts)] \in {"http_4xx", "file_not_found"})
           => retry_result \in {"raised", "none"}
    /\ (attempts # <<>> /\ attempts[Len(attempts)] = "ok") => retry_result = "returned"

(***************************************************************************)
(* The parallel upload_session_folder: a ThreadPoolExecutor of at most     *)
(* three workers, the results collected as they complete, and the          *)
(* sequential retry of the files that failed                               *)
(***************************************************************************)
SessionFileName(i) == <<"f">> \o IntToStr(i)

SessionFileNames == {SessionFileName(i) : i \in 1..MaxFiles}

\* the folders tried: the first k file names, for every k
SessionFolders == {{SessionFileName(i) : i \in 1..k} : k \in 0..MaxFiles}

\* mutant of max_workers: one worker per file
max_workers_OnePerFile == Cardinality(files_to_upload)

\* max_workers=min(len(files_to_upload), 3)
max_workers ==
    IF Cardinality(files_to_upload) < 3 THEN Cardinality(files_to_upload) ELSE 3

\* how _upload_file ends: a file id, None, or an exception
UploadResults == {"id", "none", "raised"}

Running == {f \in DOMAIN future : future[f] = "running"}

InList(list, x) == \E i \in 1..Len(list) : list[i] = x

\* the number of entries of uploaded_files for the file f
Recorded(f) == IF f \in DOMAIN uploaded_list THEN uploaded_list[f] ELSE 0

\* uploaded_files.append({"name": file_path.name, "id": file_id})
Record(f) == (f :> Recorded(f) + 1) @@ uploaded_list

\* the future of f is done and the as_completed loop has handled it
Collected(f) == future[f] \in UploadResults

AllCollected == \A f \in files_to_upload : f \in DOMAIN future /\ Collected(f)

PoolInit ==
    /\ HandlerIdle
    /\ NoDrive
    /\ NoWorkbook
    /\ NoAccounts
    /\ NoConversion
    /\ NoImages
    /\ NoSubmissions
    /\ NoRetry
    /\ NoSignature
    /\ files_to_upload \in SessionFolders
    /\ pool_stage = "start"
    /\ future = <<>>
    /\ failed_files = <<>>
    /\ uploaded_list = <<>>
    /\ retry_index = 0

\* future_to_file = {executor.submit(self._upload_file, ...): file_path for ...}
SubmitAll ==
    /\ pool_stage = "start"
    /\ files_to_upload # {}
    /\ pool_stage' = "pool"
    /\ future' = [f \in files_to_upload |-> "queued"]
    /\ UNCHANGED <<files_to_upload, failed_files, uploaded_list, retry_index>>
    /\ UNCHANGED outside_pool

\* a free worker takes a queued task
StartUpload(f) ==
    /\ pool_stage = "pool"
    /\ f \in DOMAIN future
    /\ future[f] = "queued"
    /\ Cardinality(Running) < max_workers
    /\ future' = [future EXCEPT ![f] = "running"]
    /\ UNCHANGED <<files_to_upload, pool_stage, failed_files, uploaded_list, retry_index>>
    /\ UNCHANGED outside_pool

\* the _upload_file of a worker ends and the as_completed loop, which yields the
\* futures in the order they complete, handles its result
FinishUpload(f) ==
    /\ pool_stage = "pool"
    /\ f \in DOMAIN future
    /\ future[f] = "running"
    /\ \E result \in UploadResults :
        /\ future' = [future EXCEPT ![f] = result]
        /\ IF result = "id"
           THEN uploaded_list' = Record(f) /\ UNCHANGED failed_files
           ELSE failed_files' = Append(failed_files, f) /\ UNCHANGED uploaded_list
    /\ UNCHANGED <<files_to_upload, pool_stage, retry_index>>
    /\ UNCHANGED outside_pool

\* one iteration of: for file_path in failed_files (after the with block)
RetryFailed ==
    /\ pool_stage = "pool"
    /\ AllCollected
    /\ retry_index < Len(failed_files)
    /\ retry_index' = retry_index + 1
    /\ \E result \in UploadResults :
           uploaded_list' =
               IF result = "id"
               THEN Record(failed_files[retry_index + 1])
               ELSE uploaded_list
    /\ UNCHANGED <<files_to_upload, pool_stage, future, failed_files>>
    /\ UNCHANGED outside_pool

\* return True: no file in the folder, or every failed file was retried
ReturnTrue ==
    /\ \/ pool_stage = "start" /\ files_to_upload = {}
       \/ pool_stage = "pool" /\ AllCollected /\ retry_index = Len(failed_files)
    /\ pool_stage' = "done"
    /\ UNCHANGED <<files_to_upload, future, failed_files, uploaded_list, retry_index>>
    /\ UNCHANGED outside_pool

PoolNext ==
    \/ SubmitAll
    \/ \E f \in SessionFileNames : StartUpload(f)
    \/ \E f \in SessionFileNames : FinishUpload(f)
    \/ RetryFailed
    \/ ReturnTrue

PoolSpec == PoolInit /\ [][PoolNext]_vars

(***************************************************************************)
(* C18: in the parallel upload at most 3 uploads run at the same time;     *)
(* every file of the session folder has exactly one task in the pool; a    *)
(* file is in failed_files exactly when its parallel upload did not give   *)
(* a file id, and when the upload returns each of them has been retried    *)
(* once, in order; no file is recorded twice in uploaded_files.            *)
(***************************************************************************)
Occurrences(list, x) == Cardinality({i \in 1..Len(list) : list[i] = x})

C18_ParallelUploadBounded ==
    /\ Cardinality(Running) <= 3
    /\ pool_stage = "pool" => DOMAIN future = files_to_upload
    /\ \A f \in SessionFileNames :
           /\ Recorded(f) <= 1
           /\ Occurrences(failed_files, f) <= 1
           /\ Recorded(f) = 1 => f \in files_to_upload
    /\ retry_index <= Len(failed_files)
    /\ \A i \in (retry_index + 1)..Len(failed_files) : Recorded(failed_files[i]) = 0
    /\ pool_stage = "done" =>
           /\ retry_index = Len(failed_files)
           /\ \A f \in files_to_upload :
                  /\ f \in DOMAIN future
                  /\ InList(failed_files, f) <=> future[f] \in {"none", "raised"}
                  /\ future[f] = "id" => Recorded(f) = 1

C18_Witness ==
    /\ pool_stage = "done"
    /\ Cardinality(files_to_upload) = 4
    /\ Len(failed_files) = 2
    /\ Recorded(failed_files[1]) = 1
    /\ Recorded(failed_files[2]) = 0
    /\ Cardinality({f \in files_to_upload : Recorded(f) = 1}) = 3

(***************************************************************************)
(* Insertion of the signature into a worksheet: the three functions that   *)
(* pick a signature file of the session folder and embed it                *)
(***************************************************************************)
original_png_filename ==
    <<"s", "i", "g", "n", "a", "t", "u", "r", "e", "_", "o", "r", "i", "g", "i", "n", "a", "l",
      ".", "p", "n", "g">>

sSignatureJpg == <<"s", "i", "g", "n", "a", "t", "u", "r", "e", ".", "j", "p", "g">>

sScanPng == <<"s", "c", "a", "n", ".", "p", "n", "g">>

\* what a file holds: the bytes uploaded, a converted PNG, a cropped PNG
Contents == {"upload", "converted", "cropped"}

Exists(f) == f \in DOMAIN signature_files

\* str.endswith
EndsWith(str, suffix) ==
    Len(str) >= Len(suffix)
        /\ SubSeq(str, Len(str) - Len(suffix) + 1, Len(str)) = suffix

\* the session folders tried: every combination of the processed file, the
\* original PNG and two original uploads
FolderContents ==
    {fc \in [{signature_filename, original_png_filename, sSignatureJpg, sScanPng}
                 -> Contents \cup {"missing"}] :
        /\ fc[signature_filename] \in {"cropped", "missing"}
        /\ fc[original_png_filename] \in {"converted", "missing"}
        /\ fc[sSignatureJpg] \in {"upload", "missing"}
        /\ fc[sScanPng] \in {"upload", "missing"}}

FolderOf(fc) == [f \in {g \in DOMAIN fc : fc[g] # "missing"} |-> fc[f]]

InsertInit ==
    /\ HandlerIdle
    /\ NoDrive
    /\ NoWorkbook
    /\ NoAccounts
    /\ NoConversion
    /\ NoImages
    /\ NoSubmissions
    /\ NoRetry
    /\ NoPool
    /\ \E fc \in FolderContents : signature_files = FolderOf(fc)
    /\ sig_failing \in SUBSET {"copy2", "convert_signature_to_png", "Image"}
    /\ sig_pc = "none"
    /\ signature_upload = <<>>
    /\ final_signature_filename \in {sSignatureJpg, sScanPng}
    /\ signature_data = "none"
    /\ insert_call = "ready"
    /\ signature_type = "none"
    /\ embedded = <<>>
    /\ inserted = "pending"

\* _find_signature_file(session_folder, user_info): has_user_info is
\* "user_info and 'signature' in user_info"
_find_signature_file(has_user_info) ==
    IF Exists(signature_filename) THEN "processed"
    ELSE IF Exists(original_png_filename) THEN "original_png"
    ELSE IF has_user_info /\ Exists(final_signature_filename) THEN "original"
    ELSE "none"

\* shutil.copy2(src, signature.png)
Copied(src) == (signature_filename :> signature_files[src]) @@ signature_files

\* convert_signature_to_png(src, signature.png)
Converted == (signature_filename :> "converted") @@ signature_files

\* _prepare_signature_for_insertion: whether it returns a path
Prepared(type) ==
    CASE type = "processed" -> TRUE
      [] type = "original_png" -> "copy2" \notin sig_failing
      [] type = "original" -> "convert_signature_to_png" \notin sig_failing
      [] OTHER -> FALSE

FolderAfterPrepare(type) ==
    IF ~Prepared(type) THEN signature_files
    ELSE CASE type = "original_png" -> Copied(original_png_filename)
           [] type = "original" -> Converted
           [] OTHER -> signature_files

Guarded_NotImage == {"copy2", "convert_signature_to_png"}

\* the operations whose failure the insertion functions turn into a False:
\* copy2 and image.Image sit inside try/except Exception, and
\* convert_signature_to_png catches every exception itself
Guarded == {"copy2", "convert_signature_to_png", "Image"}

\* what a call gives back: True, False, or the exception of an operation it
\* ran that failed outside every try
Result(ok, ran) ==
    IF (ran \cap sig_failing) \ Guarded # {} THEN "raised"
    ELSE IF ok THEN "True"
    ELSE "False"

\* the operations a call runs for a signature file of the given kind
Ran(prepare, embeds) ==
    (IF prepare = "none" THEN {} ELSE {prepare}) \cup (IF embeds THEN {"Image"} ELSE {})

\* insert_signature_at_cell of src/src/image_processing.py
insert_signature_at_cell ==
    /\ insert_call = "ready"
    /\ LET type == _find_signature_file(FALSE)
           ok == Prepared(type) /\ "Image" \notin sig_failing
           prepare == CASE type = "original_png" -> "copy2"
                        [] type = "original" -> "convert_signature_to_png"
                        [] OTHER -> "none"
       IN  /\ signature_type' = type
           /\ signature_files' = FolderAfterPrepare(type)
           /\ embedded' = IF ok THEN signature_filename ELSE <<>>
           /\ inserted' = Result(ok, Ran(prepare, Prepared(type)))
    /\ insert_call' = "insert_signature_at_cell"
    /\ UNCHANGED <<sig_failing, sig_pc, signature_upload, final_signature_filename,
                   signature_data>>
    /\ UNCHANGED outside_signature

\* insert_signature_at_cell of purchase_request_site/image_processing.py
site_insert_signature_at_cell ==
    /\ insert_call = "ready"
    /\ LET type == _find_signature_file(FALSE)
           ok == type # "none" /\ "Image" \notin sig_failing
       IN  /\ signature_type' = type
           /\ embedded' =
                  IF ~ok THEN <<>>
                  ELSE IF type = "processed" THEN signature_filename
                  ELSE original_png_filename
           /\ inserted' = Result(ok, Ran("none", type # "none"))
    /\ insert_call' = "site_insert_signature_at_cell"
    /\ UNCHANGED <<signature_files, sig_failing, sig_pc, signature_upload,
                   final_signature_filename, signature_data>>
    /\ UNCHANGED outside_signature

\* insert_signature_into_worksheet of purchase_request_site/image_processing.py
insert_signature_into_worksheet ==
    /\ insert_call = "ready"
    /\ LET type == _find_signature_file(TRUE)
           copies == type = "original_png"
                         \/ (type = "original"
                                /\ EndsWith(final_signature_filename, <<".", "p", "n", "g">>))
           conversion_success ==
               CASE type = "none" -> FALSE
                 [] type = "processed" -> TRUE
                 [] copies -> "copy2" \notin sig_failing
                 [] OTHER -> "convert_signature_to_png" \notin sig_failing
           ok == conversion_success /\ "Image" \notin sig_failing
       IN  /\ signature_type' = type
           /\ signature_files' =
                  IF ~conversion_success \/ type = "processed" THEN signature_files
                  ELSE IF type = "original_png" THEN Copied(original_png_filename)
                  ELSE IF copies THEN Copied(final_signature_filename)
                  ELSE Converted
           /\ embedded' = IF ok THEN signature_filename ELSE <<>>
           /\ inserted' = Result(ok, Ran(IF type \in {"none", "processed"} THEN "none"
                                         ELSE IF copies THEN "copy2"
                                         ELSE "convert_signature_to_png",
                                         conversion_success))
    /\ insert_call' = "insert_signature_into_worksheet"
    /\ UNCHANGED <<sig_failing, sig_pc, signature_upload, final_signature_filename,
                   signature_data>>
    /\ UNCHANGED outside_signature

\* create_purchase_request after the insertion: the call is a statement of
\* its own, so an exception of it leaves the function before wb.save
SaveWorkbook ==
    /\ insert_call # "ready"
    /\ sig_pc = "none"
    /\ sig_pc' = IF inserted = "raised" THEN "not_saved" ELSE "saved"
    /\ UNCHANGED <<signature_files, sig_failing, signature_upload, final_signature_filename,
                   signature_data, insert_call, signature_type, embedded, inserted>>
    /\ UNCHANGED outside_signature

InsertNext ==
    \/ insert_signature_at_cell
    \/ site_insert_signature_at_cell
    \/ insert_signature_into_worksheet
    \/ SaveWorkbook

InsertSpec == InsertInit /\ [][InsertNext]_vars

(***************************************************************************)
(* C19 as stated: whatever signature files the session folder holds,       *)
(* insert_signature_at_cell reports a failure, when no operation fails,    *)
(* only if none of signature.png, signature_original.png and the original  *)
(* upload exists, it takes the original upload when that is the only one   *)
(* of the three, and the file it embeds is always signature.png.           *)
(***************************************************************************)
AtCellFunctions == {"insert_signature_at_cell", "site_insert_signature_at_cell"}

C19_SignatureFallback ==
    insert_call \in AtCellFunctions =>
        /\ (inserted = "False" /\ sig_failing = {}) =>
               /\ ~Exists(signature_filename)
               /\ ~Exists(original_png_filename)
               /\ ~Exists(final_signature_filename)
        /\ inserted = "True" => embedded = signature_filename
        /\ signature_type = "none" => ~Exists(final_signature_filename)

\* C21: insert_signature_at_cell gives back True or False and never an
\* exception, whatever the signature lookup finds and whichever of the copy,
\* the conversion and the embedding fails; the workbook is then saved
C21_InsertNeverRaises ==
    insert_call \in AtCellFunctions =>
        /\ inserted \in {"True", "False"}
        /\ sig_pc = "none" => ENABLED SaveWorkbook
        /\ sig_pc # "none" => sig_pc = "saved"

\* the original PNG was found, its copy failed and the embedding would have
\* failed too; the call gave False and the workbook was saved
C21_Witness ==
    /\ insert_call = "insert_signature_at_cell"
    /\ signature_type = "original_png"
    /\ {"copy2", "Image"} \subseteq sig_failing
    /\ inserted = "False"
    /\ sig_pc = "saved"

\* no signature file at all: False, and the workbook was saved
C21_WitnessMissing ==
    /\ insert_call = "site_insert_signature_at_cell"
    /\ signature_type = "none"
    /\ inserted = "False"
    /\ sig_pc = "saved"

(***************************************************************************)
(* Processing of an uploaded signature: submit_request saves the upload,   *)
(* converts it to PNG, crops it and hands a file name to the dashboard;    *)
(* edit_profile_post stores the converted upload in the user's profile     *)
(***************************************************************************)
\* the file names the browser sends with the signature
UploadNames ==
    { <<"s", ".", "p", "n", "g">>, <<"s", ".", "P", "N", "G">>, <<"s", ".", "j", "p", "g">>,
      <<"a", ".", "b", ".", "g", "i", "f">>, <<"s", "i", "g">>, <<"s", ".", "p", "d", "f">> }

\* signature.filename.split(".")[-1] if "." in signature.filename else "png"
signature_extension(filename) ==
    IF DotPositions(filename) = {} THEN <<"p", "n", "g">> ELSE Extension(filename)

\* f"signature.{signature_extension}"
uploaded_signature_filename(filename) ==
    <<"s", "i", "g", "n", "a", "t", "u", "r", "e", ".">> \o signature_extension(filename)

RemovesOriginal_Always(ext) == TRUE

\* signature_extension.lower() != "png"
RemovesOriginal(ext) == [i \in 1..Len(ext) |-> Lower(ext[i])] # <<"p", "n", "g">>

\* the steps of the two handlers that can fail: each returns False or raises
\* an exception the handler catches
SignatureSteps == {"convert_signature_to_png", "detect_and_crop_signature", "copy2", "remove"}

UploadInit ==
    /\ HandlerIdle
    /\ NoDrive
    /\ NoWorkbook
    /\ NoAccounts
    /\ NoConversion
    /\ NoImages
    /\ NoSubmissions
    /\ NoRetry
    /\ NoPool
    /\ signature_files = <<>>
    /\ sig_failing \in SUBSET SignatureSteps
    /\ sig_pc = "start"
    /\ signature_upload \in UploadNames
    /\ final_signature_filename = <<>>
    /\ signature_data = "none"
    /\ insert_call = "none"
    /\ signature_type = "none"
    /\ embedded = <<>>
    /\ inserted = "none"

\* submit_request: the upload is written under signature.<extension>
SaveOriginal ==
    /\ sig_pc = "start"
    /\ signature_files' =
           (uploaded_signature_filename(signature_upload) :> "upload") @@ signature_files
    /\ sig_pc' = "convert"
    /\ UNCHANGED <<sig_failing, signature_upload, final_signature_filename, signature_data,
                   insert_call, signature_type, embedded, inserted>>
    /\ UNCHANGED outside_signature

\* submit_request: convert_signature_to_png writes signature_original.png; when
\* it returns False the name handed on is the one of the upload
ConvertToPng ==
    /\ sig_pc = "convert"
    /\ IF "convert_signature_to_png" \in sig_failing
       THEN /\ final_signature_filename' = uploaded_signature_filename(signature_upload)
            /\ sig_pc' = "redirect"
            /\ UNCHANGED signature_files
       ELSE /\ signature_files' = (original_png_filename :> "converted") @@ signature_files
            /\ sig_pc' = "crop"
            /\ UNCHANGED final_signature_filename
    /\ UNCHANGED <<sig_failing, signature_upload, signature_data,
                   insert_call, signature_type, embedded, inserted>>
    /\ UNCHANGED outside_signature

\* submit_request: detect_and_crop_signature writes signature.png; when it
\* returns False the original PNG is copied over it, and when the copy raises
\* the name handed on is the one of the original PNG
CropSignature ==
    /\ sig_pc = "crop"
    /\ IF "detect_and_crop_signature" \notin sig_failing
       THEN /\ signature_files' = (signature_filename :> "cropped") @@ signature_files
            /\ final_signature_filename' = signature_filename
       ELSE IF "copy2" \notin sig_failing
       THEN /\ signature_files' = (signature_filename :> "converted") @@ signature_files
            /\ final_signature_filename' = signature_filename
       ELSE /\ final_signature_filename' = original_png_filename
            /\ UNCHANGED signature_files
    /\ sig_pc' = "remove"
    /\ UNCHANGED <<sig_failing, signature_upload, signature_data,
                   insert_call, signature_type, embedded, inserted>>
    /\ UNCHANGED outside_signature

\* submit_request: after a conversion the upload is removed unless it is a PNG
RemoveOriginal ==
    /\ sig_pc = "remove"
    /\ LET name == uploaded_signature_filename(signature_upload)
       IN  IF RemovesOriginal(signature_extension(signature_upload))
              /\ "remove" \notin sig_failing
           THEN signature_files' =
                    [f \in DOMAIN signature_files \ {name} |-> signature_files[f]]
           ELSE UNCHANGED signature_files
    /\ sig_pc' = "redirect"
    /\ UNCHANGED <<sig_failing, signature_upload, final_signature_filename, signature_data,
                   insert_call, signature_type, embedded, inserted>>
    /\ UNCHANGED outside_signature

\* submit_request: RedirectResponse to /dashboard with signature={final_signature_filename}
RedirectToDashboard ==
    /\ sig_pc = "redirect"
    /\ sig_pc' = "dashboard"
    /\ UNCHANGED <<signature_files, sig_failing, signature_upload, final_signature_filename,
                   signature_data, insert_call, signature_type, embedded, inserted>>
    /\ UNCHANGED outside_signature

\* edit_profile_post: the converted PNG goes to user.signature_data, the
\* uploaded bytes when the conversion returns False; the temporary files are
\* unlinked and the profile page is shown again
edit_profile_post ==
    /\ sig_pc = "start"
    /\ signature_data' = IF "convert_signature_to_png" \in sig_failing
                         THEN "upload"
                         ELSE "converted"
    /\ sig_pc' = "profile"
    /\ UNCHANGED <<signature_files, sig_failing, signature_upload, final_signature_filename,
                   insert_call, signature_type, embedded, inserted>>
    /\ UNCHANGED outside_signature

UploadNext ==
    \/ SaveOriginal
    \/ ConvertToPng
    \/ CropSignature
    \/ RemoveOriginal
    \/ RedirectToDashboard
    \/ edit_profile_post

UploadSpec == UploadInit /\ [][UploadNext]_vars

Pixels == {"white", "black", "ink"}

Images == UNION {[1..h -> [1..w -> Pixels]] : h \in 1..MaxSide, w \in 1..MaxSide}

\* height, width = img_array.shape[:2]
Height(a) == Len(a)

Width(a) == IF Len(a) = 0 THEN 0 ELSE Len(a[1])

\* img_array[i] and img_array[:, i]
RowOf(a, i) == a[i + 1]

ColumnOf(a, i) == [k \in 1..Height(a) |-> a[k][i + 1]]

\* np.all(pixels > 235)
is_all_white(pixels) == \A k \in 1..Len(pixels) : pixels[k] = "white"

\* np.all(pixels < 20)
is_all_black(pixels) == \A k \in 1..Len(pixels) : pixels[k] = "black"

NonBlankRows(a) ==
    {i \in 0..(Height(a) - 1) : ~is_all_white(RowOf(a, i)) /\ ~is_all_black(RowOf(a, i))}

NonBlankColumns(a) ==
    {i \in 0..(Width(a) - 1) :
        ~is_all_white(ColumnOf(a, i)) /\ ~is_all_black(ColumnOf(a, i))}

Least(S) == CHOOSE x \in S : \A y \in S : x <= y

Greatest(S) == CHOOSE x \in S : \A y \in S : y <= x

\* the four loops, each with its value when no row or column stops it
top(a) == IF NonBlankRows(a) = {} THEN 0 ELSE Least(NonBlankRows(a))

bottom(a) == IF NonBlankRows(a) = {} THEN Height(a) - 1 ELSE Greatest(NonBlankRows(a))

left(a) == IF NonBlankColumns(a) = {} THEN 0 ELSE Least(NonBlankColumns(a))

right(a) == IF NonBlankColumns(a) = {} THEN Width(a) - 1 ELSE Greatest(NonBlankColumns(a))

\* img.crop((l, t, r, b)): columns l..r-1 of rows t..b-1
crop(a, l, t, r, b) ==
    [i \in 1..(b - t) |-> [j \in 1..(r - l) |-> a[t + i][l + j]]]

trim_whitespace_Exclusive(a) ==
    IF top(a) > bottom(a) \/ left(a) > right(a) THEN a
    ELSE crop(a, left(a), top(a), right(a), bottom(a))

\* the image trim_whitespace returns and saves
trim_whitespace(a) ==
    IF top(a) > bottom(a) \/ left(a) > right(a) THEN a
    ELSE crop(a, left(a), top(a), right(a) + 1, bottom(a) + 1)

TrimInit ==
    /\ HandlerIdle
    /\ NoDrive
    /\ NoWorkbook
    /\ NoAccounts
    /\ NoConversion
    /\ NoSubmissions
    /\ NoRetry
    /\ NoPool
    /\ NoSignature
    /\ source_img \in Images
    /\ img = source_img
    /\ trim_calls = 0

\* one call of trim_whitespace on the file the last call saved
TrimWhitespace ==
    /\ trim_calls < MaxTrims
    /\ img' = trim_whitespace(img)
    /\ trim_calls' = trim_calls + 1
    /\ UNCHANGED source_img
    /\ UNCHANGED outside_image

TrimNext == TrimWhitespace

TrimSpec == TrimInit /\ [][TrimNext]_vars

(***************************************************************************)
(* C22 as stated: trim_whitespace applied to an image that trim_whitespace *)
(* returned gives the same image back, pixel for pixel.                    *)
(***************************************************************************)
C22_TrimIdempotent == trim_calls >= 1 => trim_whitespace(img) = img

\* C23: the rectangle trim_whitespace computes is never inverted and lies
\* inside the image, its result is never empty, and an image whose rows
\* and columns are all blank comes back with its dimensions and pixels
C23_TrimNeverInverted ==
    /\ top(img) <= bottom(img)
    /\ left(img) <= right(img)
    /\ 0 <= top(img) /\ bottom(img) < Height(img)
    /\ 0 <= left(img) /\ right(img) < Width(img)
    /\ Height(img) >= 1 /\ Width(img) >= 1
    /\ (trim_calls >= 1 /\ NonBlankRows(source_img) = {} /\ NonBlankColumns(source_img) = {})
           => img = source_img

\* a 2 x 2 image of white pixels went through trim_whitespace unchanged
C23_Witness ==
    /\ trim_calls = 1
    /\ source_img = <<<<"white", "white">>, <<"white", "white">>>>
    /\ img = source_img

(***************************************************************************)
(* convert_signature_to_png: the size of the PNG it writes.  The ratio     *)
(* and the new height are Python floats: a float is a natural number,      *)
(* written as its bits from the lowest up, over a power of two, and each   *)
(* operation rounds its exact result to 53 significant bits, ties to even  *)
(***************************************************************************)
RECURSIVE ToNat(_)
ToNat(bits) == IF bits = <<>> THEN 0 ELSE Head(bits) + 2 * ToNat(Tail(bits))

RECURSIVE Inc(_)
Inc(bits) ==
    IF bits = <<>> THEN <<1>>
    ELSE IF Head(bits) = 0 THEN <<1>> \o Tail(bits)
    ELSE <<0>> \o Inc(Tail(bits))

\* the natural number times h, h >= 1
RECURSIVE MulSmall(_, _, _)
MulSmall(bits, h, carry) ==
    IF bits = <<>>
    THEN IF carry = 0 THEN <<>> ELSE <<carry % 2>> \o MulSmall(<<>>, h, carry \div 2)
    ELSE LET t == Head(bits) * h + carry
         IN  <<t % 2>> \o MulSmall(Tail(bits), h, t \div 2)

\* a natural number whose highest bit is set, rounded to 53 significant bits
RoundToPrecision(bits, sticky) ==
    IF Len(bits) <= Precision THEN bits
    ELSE LET drop == Len(bits) - Precision
             kept == SubSeq(bits, drop + 1, Len(bits))
             guard == bits[drop]
             rest == sticky \/ \E i \in 1..(drop - 1) : bits[i] = 1
             up == guard = 1 /\ (rest \/ kept[1] = 1)
         IN  [i \in 1..drop |-> 0] \o (IF up THEN Inc(kept) ELSE kept)

\* the binary digits of r / b after the point, r < b, the first one first
RECURSIVE BinaryDigits(_, _, _)
BinaryDigits(r, b, n) ==
    IF n = 0 THEN <<>> ELSE <<(2 * r) \div b>> \o BinaryDigits((2 * r) % b, b, n - 1)

RECURSIVE Remainder(_, _, _)
Remainder(r, b, n) == IF n = 0 THEN r ELSE Remainder((2 * r) % b, b, n - 1)

RECURSIVE LeadingZeros(_, _)
LeadingZeros(r, b) == IF 2 * r >= b THEN 0 ELSE 1 + LeadingZeros(2 * r, b)

Reverse(seq) == [i \in 1..Len(seq) |-> seq[Len(seq) + 1 - i]]

\* the float a / b for integers 0 < a < b
FloatDiv(a, b) ==
    LET z == LeadingZeros(a, b)
        n == z + Precision + 1
        d == BinaryDigits(a, b, n)
    IN  [bits |-> RoundToPrecision(Reverse(SubSeq(d, z + 1, n)), Remainder(a, b, n) # 0),
         scale |-> n]

\* the float h * x for an integer h >= 1
FloatMul(h, x) ==
    [bits |-> RoundToPrecision(MulSmall(x.bits, h, 0), FALSE), scale |-> x.scale]

\* int(x)
FloatToInt(x) ==
    IF Len(x.bits) <= x.scale THEN 0 ELSE ToNat(SubSeq(x.bits, x.scale + 1, Len(x.bits)))

\* ratio = max_width / img.width
ratio(width) == FloatDiv(max_width, width)

new_height_Ceiling(width, height) == (height * max_width + width - 1) \div width

\* new_height = int(img.height * ratio)
new_height(width, height) == FloatToInt(FloatMul(height, ratio(width)))

\* the widths of the images tried
ImageWidths == {1, 300, 400, 401, 464, 770, 800, 1225, 19600}

ConvertInit ==
    /\ HandlerIdle
    /\ NoDrive
    /\ NoWorkbook
    /\ NoAccounts
    /\ NoSubmissions
    /\ NoRetry
    /\ NoPool
    /\ NoSignature
    /\ NoImages
    /\ image_size \in ImageWidths \X (1..MaxImageHeight)
    /\ opens \in BOOLEAN
    /\ png_size = <<>>
    /\ convert_result = "pending"

\* convert_signature_to_png: an image wider than max_width is resized, and
\* every exception, the ValueError of a resize to height 0 included, makes
\* the call return False
convert_signature_to_png ==
    /\ convert_result = "pending"
    /\ LET width == image_size[1]
           height == image_size[2]
       IN  IF ~opens
           THEN convert_result' = "False" /\ UNCHANGED png_size
           ELSE IF width > max_width
           THEN IF new_height(width, height) = 0
                THEN convert_result' = "False" /\ UNCHANGED png_size
                ELSE /\ png_size' = <<max_width, new_height(width, height)>>
                     /\ convert_result' = "True"
           ELSE png_size' = image_size /\ convert_result' = "True"
    /\ UNCHANGED <<image_size, opens>>
    /\ UNCHANGED outside_convert

ConvertNext == convert_signature_to_png

ConvertSpec == ConvertInit /\ [][ConvertNext]_vars

Min(a, b) == IF a <= b THEN a ELSE b

(***************************************************************************)
(* C24 as stated: a successful conversion writes a PNG of width            *)
(* min(w, 400), of the same size when w <= 400 and of height               *)
(* floor(h * 400 / w) >= 1 when w > 400.                                   *)
(***************************************************************************)
C24_WidthCappedHeightFloor ==
    convert_result = "True" =>
        /\ png_size[1] = Min(image_size[1], max_width)
        /\ image_size[1] <= max_width => png_size = image_size
        /\ image_size[1] > max_width =>
               png_size[2] = (image_size[2] * max_width) \div image_size[1]
        /\ png_size[2] >= 1

\* C24, amended: a successful conversion writes a PNG of width min(w, 400),
\* of the same size when w <= 400; when w > 400 its height is at least 1
\* and is floor(h * 400 / w), or one less than that when w divides h * 400
\* and the float product falls just below the integer
C24_WidthCappedHeightRounded ==
    convert_result = "True" =>
        LET w == image_size[1]
            h == image_size[2]
            floor == (h * max_width) \div w
        IN  /\ png_size[1] = Min(w, max_width)
            /\ w <= max_width => png_size = image_size
            /\ w > max_width =>
                   /\ png_size[2] \in {floor, floor - 1}
                   /\ (h * max_width) % w # 0 => png_size[2] = floor
            /\ png_size[2] >= 1

\* a 770 x 77 image came out 400 x 39, one row less than 77 * 400 / 770 = 40
C24_Witness ==
    /\ convert_result = "True"
    /\ image_size = <<770, 77>>
    /\ png_size = <<400, 39>>

(***************************************************************************)
(* C25 as stated: in a submission that retains a form the signature file   *)
(* is prepared only after the records are assembled, the documents are     *)
(* generated after that, then come the drive folder, the sheet log and the *)
(* upload, and the deletion of the local folder is the last step.          *)
(***************************************************************************)
StepsInOrder ==
    <<"save_signature_to_file", "create_purchase_request", "create_expense_report",
      "create_drive_folder_and_get_url", "log_purchase_request",
      "upload_session_to_drive", "rmtree">>

\* where the first call of c stands among the calls made so far
PositionOf(c) == CHOOSE i \in 1..Len(calls) : calls[i] = c /\ \A j \in 1..(i - 1) : calls[j] # c

C25_StepsInOrder ==
    /\ Called("save_signature_to_file") => LoopEnded
    /\ Called("create_purchase_request") => LoopEnded /\ Called("save_signature_to_file")
    /\ \A i, j \in 1..Len(StepsInOrder) :
           (i < j /\ Called(StepsInOrder[i]) /\ Called(StepsInOrder[j]))
               => PositionOf(StepsInOrder[i]) < PositionOf(StepsInOrder[j])
    /\ Called("rmtree") => calls[Len(calls)] = "rmtree"

\* without its first conjunct the order holds: every later step follows the
\* assembly and the steps before it
C25_LaterStepsInOrder ==
    /\ Called("create_purchase_request") => LoopEnded /\ Called("save_signature_to_file")
    /\ \A i, j \in 1..Len(StepsInOrder) :
           (i < j /\ Called(StepsInOrder[i]) /\ Called(StepsInOrder[j]))
               => PositionOf(StepsInOrder[i]) < PositionOf(StepsInOrder[j])
    /\ Called("rmtree") => calls[Len(calls)] = "rmtree"

(***************************************************************************)
(* Accounts: login, logout, the endpoints behind require_auth, and the     *)
(* profile form                                                            *)
(***************************************************************************)
sEmail1 == <<"a", "@">>

sEmail2 == <<"b", "@">>

sEmail3 == <<"c", "@">>

sOldpw == <<"o", "l", "d", "p", "w">>

sNewpw == <<"n", "e", "w", "p", "w">>

\* str.strip() of the strings used here: the blanks at both ends removed
strip(str) ==
    LET inked == {i \in 1..Len(str) : str[i] # " "}
    IN  IF inked = {} THEN <<>> ELSE SubSeq(str, Least(inked), Greatest(inked))

UserIds == {1, 2}

\* the users tables tried: two users, each with one of two passwords
UserTables ==
    {<<[email |-> sEmail1, password |-> p1, name |-> <<"A">>],
       [email |-> sEmail2, password |-> p2, name |-> <<"B">>]>> :
        p1 \in {sOldpw, sNewpw}, p2 \in {sOldpw, sNewpw}}

\* db.query(User).filter(User.email == email).first(): the id, 0 for None
get_user_by_email(table, email) ==
    IF \E i \in UserIds : table[i].email = email
    THEN Least({i \in UserIds : table[i].email = email})
    ELSE 0

is_authenticated_Always == TRUE

\* request.session.get("authenticated", False)
is_authenticated == session.authenticated

NoRequest == [endpoint |-> "none", ran |-> FALSE, args |-> <<>>, before |-> <<>>]

ProtectedEndpoints ==
    {"dashboard", "submit-all-requests", "success", "download-excel", "edit-profile"}

\* POST /login
login(email, password) ==
    /\ LET user == get_user_by_email(users, email)
       IN  session' = IF user # 0 /\ users[user].password = password
                      THEN [authenticated |-> TRUE, user_email |-> email]
                      ELSE session
    /\ last_request' = [endpoint |-> "login", ran |-> TRUE,
                        args |-> [email |-> email, password |-> password],
                        before |-> users]
    /\ UNCHANGED users
    /\ UNCHANGED outside_account

\* GET /logout: request.session.clear()
logout ==
    /\ session' = [authenticated |-> FALSE, user_email |-> <<>>]
    /\ last_request' = [endpoint |-> "logout", ran |-> TRUE, args |-> <<>>,
                        before |-> users]
    /\ UNCHANGED users
    /\ UNCHANGED outside_account

\* an endpoint with Depends(require_auth) that leaves the users table alone:
\* without authentication require_auth raises the 302 and the handler is skipped
ProtectedRequest(endpoint) ==
    /\ last_request' = [endpoint |-> endpoint, ran |-> is_authenticated, args |-> <<>>,
                        before |-> users]
    /\ UNCHANGED <<users, session>>
    /\ UNCHANGED outside_account

password_after_Unverified(stored, current_password, new_password, confirm_password) ==
    IF new_password = <<>> /\ current_password = <<>> THEN stored
    ELSE IF current_password = <<>> THEN stored
    ELSE IF new_password = <<>> THEN stored
    ELSE IF Len(new_password) < 5 THEN stored
    ELSE IF new_password # confirm_password THEN stored
    ELSE new_password

\* the password the profile form leaves in the row, given the stripped fields
password_after(stored, current_password, new_password, confirm_password) ==
    IF new_password = <<>> /\ current_password = <<>> THEN stored
    ELSE IF current_password = <<>> THEN stored
    ELSE IF new_password = <<>> THEN stored
    ELSE IF Len(new_password) < 5 THEN stored
    ELSE IF new_password # confirm_password THEN stored
    ELSE IF stored # current_password THEN stored
    ELSE new_password

\* the row as the handler has set it when it reaches db.commit()
UpdatedRow(row, args) ==
    [email |-> strip(args.email),
     name |-> strip(args.name),
     password |-> password_after(row.password, strip(args.current_password),
                                 strip(args.new_password), strip(args.confirm_password))]

\* db.commit() raises: the email column is unique, and the database can fail
CommitRaises(table, user, args) ==
    \/ args.commit_fails
    \/ \E other \in UserIds \ {user} : table[other].email = strip(args.email)

\* POST /edit-profile?user_email=...
EditProfilePost(args) ==
    /\ LET user == get_user_by_email(users, args.user_email)
       IN  users' =
               IF ~is_authenticated \/ user = 0 \/ CommitRaises(users, user, args)
               THEN users
               ELSE [users EXCEPT ![user] = UpdatedRow(users[user], args)]
    /\ last_request' = [endpoint |-> "edit-profile", ran |-> is_authenticated,
                        args |-> args, before |-> users]
    /\ UNCHANGED session
    /\ UNCHANGED outside_account

\* the fields of the profile forms tried
ProfileForms ==
    [user_email : {sEmail1, sEmail3},
     email : {sEmail1, sEmail2, <<" ">> \o sEmail3},
     name : {<<"A">>, <<"C", " ">>},
     current_password : {<<>>, sOldpw, sOldpw \o <<" ">>, sNewpw},
     new_password : {<<>>, sNewpw, <<"a", "b", " ", " ", " ">>, <<" ">> \o sNewpw},
     confirm_password : {<<>>, sNewpw, <<"a", "b", " ", " ", " ">>},
     commit_fails : BOOLEAN]

\* the profile forms sent between logins and logouts
SessionForms ==
    {f \in ProfileForms :
        /\ f.email = f.user_email
        /\ f.name = <<"A">>
        /\ f.current_password \in {<<>>, sOldpw}
        /\ f.new_password = sNewpw
        /\ f.confirm_password = sNewpw
        /\ ~f.commit_fails}

AccountInit ==
    /\ HandlerIdle
    /\ NoDrive
    /\ NoWorkbook
    /\ NoSubmissions
    /\ NoRetry
    /\ NoPool
    /\ NoSignature
    /\ NoImages
    /\ NoConversion
    /\ users \in UserTables
    /\ last_request = NoRequest

AuthInit ==
    /\ AccountInit
    /\ session = [authenticated |-> FALSE, user_email |-> <<>>]

AuthNext ==
    \/ \E email \in {sEmail1, sEmail2, sEmail3}, password \in {sOldpw, sNewpw, <<>>} :
           login(email, password)
    \/ logout
    \/ \E endpoint \in ProtectedEndpoints \ {"edit-profile"} : ProtectedRequest(endpoint)
    \/ \E args \in SessionForms : EditProfilePost(args)

AuthSpec == AuthInit /\ [][AuthNext]_vars

ProfileInit ==
    /\ AccountInit
    /\ session \in {[authenticated |-> FALSE, user_email |-> <<>>],
                    [authenticated |-> TRUE, user_email |-> sEmail1]}

\* one profile form sent to a users table
ProfileNext ==
    /\ last_request = NoRequest
    /\ \E args \in ProfileForms : EditProfilePost(args)

ProfileSpec == ProfileInit /\ [][ProfileNext]_vars

\* the login of this step has the password stored for its email
ValidLogin ==
    /\ last_request'.endpoint = "login"
    /\ \E i \in UserIds :
           /\ users[i].email = last_request'.args.email
           /\ users[i].password = last_request'.args.password

BecomesAuthenticatedByLogin ==
    (~session.authenticated /\ session'.authenticated) => ValidLogin

LogoutEndsAuthentication ==
    (last_request'.endpoint = "logout" /\ last_request' # last_request)
        => ~session'.authenticated

HandlerRanAuthenticated ==
    (last_request' # last_request /\ last_request'.ran
        /\ last_request'.endpoint \in ProtectedEndpoints) => session.authenticated

\* C26: over every sequence of logins, logouts and requests of one browser
\* session, the handler of a protected endpoint runs only while the session
\* is authenticated, the session becomes authenticated only through a login
\* whose email names a user and whose password is that user's, and a logout
\* leaves it unauthenticated until such a login
C26_ProtectedOnlyWhileAuthenticated ==
    /\ [][HandlerRanAuthenticated]_vars
    /\ [][BecomesAuthenticatedByLogin]_vars
    /\ [][LogoutEndsAuthentication]_vars

\* the dashboard handler ran in an authenticated session
C26_Witness ==
    /\ last_request.endpoint = "dashboard"
    /\ last_request.ran
    /\ session.authenticated

\* an unauthenticated request of the dashboard was turned away
C26_WitnessTurnedAway ==
    /\ last_request.endpoint = "dashboard"
    /\ ~last_request.ran
    /\ ~session.authenticated

\* the row the form of the last request was aimed at, before and after
TargetId == get_user_by_email(last_request.before, last_request.args.user_email)

EditRan ==
    /\ last_request.endpoint = "edit-profile"
    /\ last_request.ran
    /\ TargetId # 0

Raised == CommitRaises(last_request.before, TargetId, last_request.args)

(***************************************************************************)
(* C27 as stated, on the fields as the form sent them: the password        *)
(* becomes the new one exactly when the current password is non-empty,     *)
(* the new one has 5 characters or more and equals its confirmation, and   *)
(* the current one equals the stored one; otherwise it stays, the other    *)
(* fields are updated all the same, and an update that raises changes      *)
(* nothing.                                                                *)
(***************************************************************************)
C27_PasswordChangeAsSent ==
    EditRan =>
        LET a == last_request.args
            old == last_request.before[TargetId]
            row == users[TargetId]
            accepted == /\ a.current_password # <<>>
                        /\ Len(a.new_password) >= 5
                        /\ a.new_password = a.confirm_password
                        /\ a.current_password = old.password
        IN  IF Raised THEN users = last_request.before
            ELSE /\ row.password = IF accepted THEN strip(a.new_password) ELSE old.password
                 /\ row.name = strip(a.name)
                 /\ row.email = strip(a.email)

\* C27, amended: the same with every password field taken after its
\* surrounding blanks are removed; the rows of the other users never change
C27_PasswordChangeStripped ==
    EditRan =>
        LET a == last_request.args
            old == last_request.before[TargetId]
            row == users[TargetId]
            current == strip(a.current_password)
            new == strip(a.new_password)
            accepted == /\ current # <<>>
                        /\ Len(new) >= 5
                        /\ new = strip(a.confirm_password)
                        /\ current = old.password
        IN  IF Raised THEN users = last_request.before
            ELSE /\ row.password = IF accepted THEN new ELSE old.password
                 /\ row.name = strip(a.name)
                 /\ row.email = strip(a.email)
                 /\ \A other \in UserIds \ {TargetId} :
                        users[other] = last_request.before[other]

\* the current password was sent with a blank after it and the password was
\* changed, the name and the email were updated
C27_Witness ==
    /\ EditRan
    /\ ~Raised
    /\ last_request.args.current_password = sOldpw \o <<" ">>
    /\ last_request.before[TargetId].password = sOldpw
    /\ users[TargetId].password = sNewpw
    /\ users[TargetId].name = <<"C">>
    /\ users[TargetId].email = sEmail3

(***************************************************************************)
(* The attachments of one submission: runs of submit_all_requests over     *)
(* forms that differ in vendor name, file names and currency               *)
(***************************************************************************)
sProofOfPayment ==
    <<"p", "r", "o", "o", "f", "_", "o", "f", "_", "p", "a", "y", "m", "e", "n", "t">>

sXPng == <<"x", ".", "p", "n", "g">>

AttachmentForms ==
    {Form(Str(v), UploadFile(i), UploadFile(pp), Str(c), AmountsPresent, <<ItemComplete(1)>>) :
        v \in {sAcme, sProofOfPayment, <<"0", "_">> \o sProofOfPayment},
        i \in {sInvPdf, sScan, sXPng},
        pp \in {sPayPng, sScan},
        c \in {sCAD, sUSD}}

\* no form, one form in position 1, or one in position 1 and one in position 10
AttachmentPayloads ==
    {[n \in {} |-> ValidCAD]}
    \cup {[n \in {1} |-> f] : f \in AttachmentForms}
    \cup {[n \in {1, MaxForms} |-> IF n = 1 THEN f ELSE g] :
              f \in AttachmentForms,
              g \in {h \in AttachmentForms :
                        h.invoice_file.val = sScan /\ h.proof_of_payment.val = sScan}}

AttachmentInit ==
    /\ form_data \in {FlatPayload(p) : p \in AttachmentPayloads}
    /\ failing = {}
    /\ AtStart
    /\ OutsideHandlerIdle

AttachmentSpec == AttachmentInit /\ [][Next]_vars

\* the paths the handler wrote the attachments of a record to
AttachmentsOf(r) ==
    IF r.proof_of_payment_location = None
    THEN <<r.invoice_file_location>>
    ELSE <<r.invoice_file_location, r.proof_of_payment_location.val>>

(***************************************************************************)
(* C28 as stated: the invoice files of the retained forms and the proof    *)
(* files of the USD ones lie at paths that differ two by two, whatever the *)
(* vendor names and the file extensions.                                   *)
(***************************************************************************)
C28_AttachmentPathsDistinct ==
    /\ \A r \in Records :
           r.proof_of_payment_location # None
               => r.proof_of_payment_location.val # r.invoice_file_location
    /\ \A r1, r2 \in Records :
           r1.form_number # r2.form_number
               => \A i \in 1..Len(AttachmentsOf(r1)), j \in 1..Len(AttachmentsOf(r2)) :
                      AttachmentsOf(r1)[i] # AttachmentsOf(r2)[j]

\* the attachments of different forms never share a path
C28_DistinctAcrossForms ==
    \A r1, r2 \in Records :
        r1.form_number # r2.form_number
            => \A i \in 1..Len(AttachmentsOf(r1)), j \in 1..Len(AttachmentsOf(r2)) :
                   AttachmentsOf(r1)[i] # AttachmentsOf(r2)[j]

(***************************************************************************)
(* The divisions of the workbook generators.  Amounts are in cents; a      *)
(* Python division by 0 or 0.0 raises ZeroDivisionError                    *)
(***************************************************************************)
ReportItems == [unit_price : {0, 150}, quantity : {2}]

ReportRecords ==
    [currency : {sCAD, sUSD},
     us_total : {0, 4050},
     canadian_amount : {0, 5000},
     hst_gst_amount : {0, 250},
     items : UNION {[1..k -> ReportItems] : k \in 1..MaxReportItems}]

\* sum(item["unit_price"] * item["quantity"] for item in form["items"])
RECURSIVE invoice_subtotal(_)
invoice_subtotal(items) ==
    IF items = <<>> THEN 0
    ELSE Head(items).unit_price * Head(items).quantity + invoice_subtotal(Tail(items))

\* populate_expense_rows_from_submitted_forms: the divisors of one row
expense_row_divisors(form) ==
    IF form.currency = sCAD THEN <<>>
    ELSE IF form.us_total > 0 /\ form.canadian_amount > 0 THEN <<form.us_total>>
    ELSE <<>>

\* create_purchase_request: the divisors of one receipt tab
conversion_rate_divisors(form) ==
    IF form.currency = sUSD /\ form.us_total > 0 /\ form.canadian_amount > 0
    THEN <<form.us_total>>
    ELSE <<>>

RECURSIVE Repeat(_, _)
Repeat(seq, n) == IF n = 0 THEN <<>> ELSE seq \o Repeat(seq, n - 1)

\* create_expense_report_non_mcmaster: the divisors of one form, in the
\* order of evaluation
non_mcmaster_divisors(form) ==
    LET subtotal == invoice_subtotal(form.items)
        invoice_total_us == subtotal + form.hst_gst_amount
    IN  IF form.currency = sUSD
        THEN <<subtotal>> \o Repeat(<<invoice_total_us, subtotal, subtotal>>, Len(form.items))
        ELSE Repeat(<<subtotal>>, Len(form.items))

Generators ==
    {"populate_expense_rows_from_submitted_forms", "create_purchase_request",
     "create_expense_report_non_mcmaster"}

DivisorsOf(g, form) ==
    CASE g = "populate_expense_rows_from_submitted_forms" -> expense_row_divisors(form)
      [] g = "create_purchase_request" -> conversion_rate_divisors(form)
      [] OTHER -> non_mcmaster_divisors(form)

RECURSIVE AllDivisors(_, _)
AllDivisors(g, forms) ==
    IF forms = <<>> THEN <<>> ELSE DivisorsOf(g, Head(forms)) \o AllDivisors(g, Tail(forms))

\* the divisions evaluated: all of them, or those up to the first by zero
RECURSIVE Evaluated(_)
Evaluated(ds) ==
    IF ds = <<>> THEN <<>>
    ELSE IF Head(ds) = 0 THEN <<0>>
    ELSE <<Head(ds)>> \o Evaluated(Tail(ds))

WorkbookInit ==
    /\ HandlerIdle
    /\ NoDrive
    /\ NoSubmissions
    /\ NoRetry
    /\ NoPool
    /\ NoSignature
    /\ NoImages
    /\ NoConversion
    /\ NoAccounts
    /\ report_forms \in {<<r>> : r \in ReportRecords}
    /\ generator = "none"
    /\ divisors = <<>>
    /\ workbook_result = "pending"

\* one generator runs over the records
GenerateWorkbook(g) ==
    /\ generator = "none"
    /\ generator' = g
    /\ divisors' = Evaluated(AllDivisors(g, report_forms))
    /\ workbook_result' =
           IF \E i \in 1..Len(divisors') : divisors'[i] = 0
           THEN "ZeroDivisionError"
           ELSE "saved"
    /\ UNCHANGED report_forms
    /\ UNCHANGED outside_workbook

WorkbookNext == \E g \in Generators : GenerateWorkbook(g)

WorkbookSpec == WorkbookInit /\ [][WorkbookNext]_vars

(***************************************************************************)
(* C29 as stated: whatever the records, USD records with us_total 0 or     *)
(* canadian_amount 0 and forms whose items all cost 0 included, no         *)
(* workbook generator divides by zero: every division it evaluates has a   *)
(* positive divisor.                                                       *)
(***************************************************************************)
C29_NoDivisionByZero ==
    /\ workbook_result # "ZeroDivisionError"
    /\ \A i \in 1..Len(divisors) : divisors[i] > 0

\* the two generators that test their divisor never divide by zero
C29_GuardedGenerators ==
    generator \in {"populate_expense_rows_from_submitted_forms", "create_purchase_request"}
        => /\ workbook_result = "saved"
           /\ \A i \in 1..Len(divisors) : divisors[i] > 0

(***************************************************************************)
(* Concurrent submissions and the month/year folder.  submit_all_requests  *)
(* is a coroutine of the one event loop of the one server process: another *)
(* request runs only while it awaits the form and the uploaded files, and  *)
(* the calls of the drive client, which block, run without interruption    *)
(***************************************************************************)
parent_folder_id == 0

\* a folder of the drive that is not the parent folder of the site
other_folder_id == 0 - 1

\* now.strftime("%B %Y") of the month of the submissions, and of another month
month_year_name == <<"J", "u", "l", "y", " ", "2", "0", "2", "5">>

sJune2025 == <<"J", "u", "n", "e", " ", "2", "0", "2", "5">>

\* files().list(q="name=... and parent_id in parents"): the ids found
MonthFolders(folders) ==
    {i \in 1..Len(folders) :
        folders[i].name = month_year_name /\ folders[i].parent = parent_folder_id}

_ensure_month_year_folder_AlwaysCreates(folders) ==
    Append(folders, [name |-> month_year_name, parent |-> parent_folder_id])

\* _ensure_month_year_folder: the folders of the drive after the call
_ensure_month_year_folder(folders) ==
    IF MonthFolders(folders) # {} THEN folders
    ELSE Append(folders, [name |-> month_year_name, parent |-> parent_folder_id])

\* the id the call returns: folders[0]["id"] of the search, or the new id
month_year_folder_id(folders, ensured) ==
    IF Len(ensured) > Len(folders) THEN Len(ensured) ELSE Least(MonthFolders(folders))

SessionFoldersOn(folders) == {i \in 1..Len(folders) : folders[i].name[1] = "s"}

DriveInit ==
    /\ HandlerIdle
    /\ NoSubmissions
    /\ NoRetry
    /\ NoPool
    /\ NoSignature
    /\ NoImages
    /\ NoConversion
    /\ NoAccounts
    /\ NoWorkbook
    /\ drive_folders \in {<<>>,
                          <<[name |-> sJune2025, parent |-> parent_folder_id]>>,
                          <<[name |-> month_year_name, parent |-> other_folder_id]>>,
                          <<[name |-> month_year_name, parent |-> parent_folder_id]>>,
                          <<[name |-> sJune2025, parent |-> parent_folder_id],
                            [name |-> month_year_name, parent |-> parent_folder_id]>>}
    /\ drive_pc = [p \in Submissions |-> "request"]

\* form_data = await request.form(), and the awaits of the uploaded files
AwaitRequest(p) ==
    /\ drive_pc[p] \in {"request", "files"}
    /\ drive_pc' = [drive_pc EXCEPT ![p] = IF @ = "request" THEN "files" ELSE "drive"]
    /\ UNCHANGED drive_folders
    /\ UNCHANGED outside_drive

HasSessionFolder(p) ==
    \E i \in 1..Len(drive_folders) : drive_folders[i].name = <<"s", p>>

\* the month/year folder is found or created and the session folder is
\* created in it; an error of the drive ends the calls with what was
\* created so far
FolderStructure(p, outcome) ==
    LET ensured == _ensure_month_year_folder(drive_folders)
        month == month_year_folder_id(drive_folders, ensured)
    IN  CASE outcome = "list_or_create_fails" -> drive_folders
          [] outcome = "session_folder_fails" -> ensured
          [] OTHER -> Append(ensured, [name |-> <<"s", p>>, parent |-> month])

DriveOutcomes == {"ok", "list_or_create_fails", "session_folder_fails"}

\* create_drive_folder_and_get_url: create_session_folder_structure, whose
\* exceptions are caught
create_session_folder_structure(p) ==
    /\ drive_pc[p] = "drive"
    /\ drive_pc' = [drive_pc EXCEPT ![p] = "upload"]
    /\ \E outcome \in DriveOutcomes : drive_folders' = FolderStructure(p, outcome)
    /\ UNCHANGED outside_drive

\* upload_session_to_drive: with a session folder id the files are uploaded
\* into it; without one the folder structure is made again
upload_session_folder(p) ==
    /\ drive_pc[p] = "upload"
    /\ drive_pc' = [drive_pc EXCEPT ![p] = "done"]
    /\ IF HasSessionFolder(p)
       THEN UNCHANGED drive_folders
       ELSE \E outcome \in DriveOutcomes : drive_folders' = FolderStructure(p, outcome)
    /\ UNCHANGED outside_drive

DriveNext ==
    \E p \in Submissions :
        \/ AwaitRequest(p)
        \/ create_session_folder_structure(p)
        \/ upload_session_folder(p)

DriveSpec == DriveInit /\ [][DriveNext]_vars

\* C30: however the concurrent submissions of one month interleave, the
\* parent folder holds at most one folder of that month's name, and every
\* session folder created lies in it
C30_OneMonthFolder ==
    /\ Cardinality(MonthFolders(drive_folders)) <= 1
    /\ \A i \in SessionFoldersOn(drive_folders) :
           drive_folders[i].parent \in MonthFolders(drive_folders)

\* two submissions ran at once into a drive without the month's folder:
\* one folder was created and holds both session folders
C30_Witness ==
    /\ \A p \in Submissions : drive_pc[p] = "done"
    /\ Cardinality(MonthFolders(drive_folders)) = 1
    /\ Cardinality(SessionFoldersOn(drive_folders)) >= 2
    /\ drive_folders[1].name = sJune2025

====
